---- MODULE Spec2Model ----
(***************************************************************************)
(* BytematicCloud backend: the quota ledger, the public-share cache and    *)
(* coupon redemption, modelled from the route handlers.  Every await of a  *)
(* handler (a pool.query, a blob-store call, a cache call) is one step of  *)
(* the request that runs it, so requests interleave exactly where the      *)
(* event loop lets them.                                                   *)
(***************************************************************************)
EXTENDS Integers, Sequences, FiniteSets, TLC

\* ------------------------------------------------------------------ bounds
NUsers == 2
MaxReq == 2
MaxFiles == 3
MaxSize == 2
MaxBatch == 2
InitQuota == 3

Users == 1..NUsers
Req == 1..MaxReq
FileIds == 1..MaxFiles
FolderIds == {1}
Sizes == 1..MaxSize
NULL == 0

VARIABLES
  users,        \* users table: id -> [storage_quota, storage_used]
  files,        \* files table: id -> row, for the ids that have a row
  nextFileId,   \* files.id SERIAL
  folders,      \* folders table: id -> [user_id, parent_folder_id]
  permissions,  \* permissions table: set of [folder_id, shared_with_user_id, permission_type]
  blobs,        \* object store: the names of the blobs it holds
  req,          \* the requests: slot -> handler position and locals
  cache,        \* Redis keys public:<token>: token -> [data, expireAt]
  isConnected,  \* RedisService.isConnected
  now,          \* wall clock, in seconds
  nextToken,    \* the next value crypto.randomUUID() yields for a share token
  sreq,         \* the share and public-link requests: slot -> position and locals
  creq,         \* the redemption requests: slot -> position and locals
  conns,        \* the connections of the pg pool
  idle,         \* the idle connections, the one released last at the end
  redemptions,  \* coupon_redemptions: the committed (user_id, coupon_id) pairs
  coupon,       \* the coupons row: [current_uses, max_uses]
  areq,         \* the folder and file-read requests: slot -> position and locals
  nextFolderId, \* folders.id SERIAL
  dreq,         \* the proxied deliveries: slot -> the two connections of a delivery
  mreq,         \* the forgot-password requests: slot -> the email delivery's position
  dispatched    \* the last request a router has matched: method, path and handler

shareVars == <<cache, isConnected, now, nextToken, sreq>>

couponVars == <<creq, conns, idle, redemptions, coupon>>

accessVars == <<areq, nextFolderId>>

vars == <<users, files, nextFileId, folders, permissions, blobs, req, shareVars, couponVars,
          accessVars, dreq, mreq, dispatched>>

\* ------------------------------------------------------------- helpers
RECURSIVE SumSeq(_)
SumSeq(s) == IF s = <<>> THEN 0 ELSE Head(s) + SumSeq(Tail(s))

RECURSIVE SumSizes(_, _)
SumSizes(tbl, ids) ==
  IF ids = {} THEN 0
  ELSE LET i == CHOOSE x \in ids : TRUE
       IN tbl[i].size + SumSizes(tbl, ids \ {i})

\* SELECT COALESCE(SUM(size), 0) FROM files WHERE user_id = u
ActualUsed(u) == SumSizes(files, {i \in DOMAIN files : files[i].user_id = u})

\* rows of a SELECT ... WHERE id IN (...) in id order
RECURSIVE SortedSeq(_)
SortedSeq(S) ==
  IF S = {} THEN <<>>
  ELSE LET m == CHOOSE x \in S : \A y \in S : x <= y
       IN <<m>> \o SortedSeq(S \ {m})

\* A request slot that has not been used yet.
Blank ==
  [kind |-> "idle", pc |-> "idle", user |-> NULL, folder |-> NULL, target |-> NULL,
   sizes |-> <<>>, idx |-> 0, rd_used |-> 0, rd_quota |-> 0,
   put |-> "none", newId |-> NULL,
   snap |-> <<>>, del |-> "none", dsnap |-> <<>>,
   successful |-> {}, failed |-> {}, deleted |-> {},
   unauthorized |-> FALSE, fids |-> {}, subCount |-> 0,
   nonEmpty |-> {}, fdeleted |-> {},
   actualUsed |-> 0, status |-> 0, details |-> <<>>]

\* The lowest unused slot takes the next request.
Free(r) == req[r].kind = "idle" /\ \A q \in Req : q < r => req[q].kind # "idle"

InFlight(r) == req[r].kind # "idle" /\ req[r].pc # "done"

Finish(r, st) == [req[r] EXCEPT !.pc = "done", !.status = st]

\* The blob a request stores for its i-th file: crypto.randomUUID() names are
\* fresh, so the pair (request, index) stands for the name.
BlobName(r, i) == <<r, i>>

\* ------------------------------------------------- permission resolution
\* Faulty variant, to show the properties tell it apart: a folder without a
\* grant row of its own takes the grant of its parent.
GrantOfWithParent(fo, u) ==
  LET Row(x) == {p \in permissions : p.folder_id = x /\ p.shared_with_user_id = u}
      up == IF fo \in DOMAIN folders THEN folders[fo].parent_folder_id ELSE NULL
  IN IF Row(fo) # {} THEN (CHOOSE p \in Row(fo) : TRUE).permission_type
     ELSE IF Row(up) # {} THEN (CHOOSE p \in Row(up) : TRUE).permission_type
     ELSE "none"

\* The grant row of (folder, user), or "none": permissions is UNIQUE on the pair.
GrantOf(fo, u) ==
  IF \E p \in permissions : p.folder_id = fo /\ p.shared_with_user_id = u
  THEN (CHOOSE p \in permissions :
          p.folder_id = fo /\ p.shared_with_user_id = u).permission_type
  ELSE "none"

\* access_level of the row the handlers select for a file:
\*   files f LEFT JOIN permissions p ON f.folder_id = p.folder_id AND p.shared_with_user_id = $1
\*   WHERE f.id = $2 AND (f.user_id = $1 OR p.shared_with_user_id = $1)
\* "none" when the query returns no row.  A NULL folder_id equals no
\* p.folder_id, so a file without folder joins no grant.
\* Faulty variant, to show the properties tell it apart: a file without folder
\* is joined with the caller's grant rows of any folder.
FileAccessRootShared(u, id) ==
  IF id \notin DOMAIN files THEN "none"
  ELSE IF files[id].user_id = u THEN "owner"
  ELSE IF files[id].folder_id = NULL
       THEN IF \E p \in permissions : p.shared_with_user_id = u
            THEN (CHOOSE p \in permissions : p.shared_with_user_id = u).permission_type
            ELSE "none"
  ELSE GrantOf(files[id].folder_id, u)

FileAccess(u, id) ==
  IF id \notin DOMAIN files THEN "none"
  ELSE IF files[id].user_id = u THEN "owner"
  ELSE IF files[id].folder_id = NULL THEN "none"
  ELSE GrantOf(files[id].folder_id, u)

\* The folder check of the upload handlers: 0 to go on, or the status returned.
UploadFolderCheck(u, fo) ==
  IF fo = NULL THEN 0
  ELSE IF fo \notin DOMAIN folders THEN 404
  ELSE IF folders[fo].user_id = u THEN 0
  ELSE IF GrantOf(fo, u) \in {"create", "edit"} THEN 0
  ELSE 403

\* parseInt(storage_used) + size > parseInt(storage_quota)
QuotaExceeded(used, size, quota) == used + size > quota

\* The binary units formatBytes divides by.
BytesPerMB == 1024 * 1024
BytesPerGB == 1024 * 1024 * 1024

\* Number.prototype.toFixed(2) of bytes / unit, as a count of hundredths: the
\* nearest one, the larger of the two when both are as near.
ToFixed2(bytes, unit) == (2 * 100 * bytes + unit) \div (2 * unit)

\* formatBytes: gb >= 1 ? `${gb.toFixed(2)}GB` : `${(bytes / (1024 * 1024)).toFixed(2)}MB`
formatBytes(bytes) ==
  IF bytes >= BytesPerGB
  THEN [hundredths |-> ToFixed2(bytes, BytesPerGB), unit |-> "GB"]
  ELSE [hundredths |-> ToFixed2(bytes, BytesPerMB), unit |-> "MB"]

\* The uploads of this model carry a MIME type outside shouldGenerateThumbnail's
\* list, so thumbnailData stays null and has_thumbnail is FALSE.
NewFile(u, fo, name, size) ==
  [user_id |-> u, folder_id |-> fo, name |-> name, size |-> size,
   public_share_token |-> NULL, is_public |-> FALSE, has_thumbnail |-> FALSE,
   mime_type |-> "text/plain", download_count |-> 0]

\* INSERT INTO files: a folder_id that names no folder violates the foreign key.
InsertOk(fo) == fo = NULL \/ fo \in DOMAIN folders

\* The files the uploads in flight may still insert; a new upload is taken only
\* while the ids 1..MaxFiles suffice for all of them.
RECURSIVE PendingInserts(_)
PendingInserts(R) ==
  IF R = {} THEN 0
  ELSE LET r == CHOOSE x \in R : TRUE
           n == IF req[r].kind \in {"upload", "multi"} /\ req[r].pc # "done"
                THEN Len(req[r].sizes) - req[r].idx + 1 ELSE 0
       IN n + PendingInserts(R \ {r})

RoomFor(n) == (nextFileId - 1) + PendingInserts(Req) + n <= MaxFiles

\* -------------------------------------------- POST /upload (single file)
UploadStart(r, u, fo, s) ==
  /\ Free(r)
  /\ RoomFor(1)
  /\ LET st == UploadFolderCheck(u, fo)
         me == [Blank EXCEPT !.kind = "upload", !.user = u, !.folder = fo,
                             !.sizes = <<s>>, !.idx = 1]
     IN req' = [req EXCEPT ![r] =
                  IF st # 0 THEN [me EXCEPT !.pc = "done", !.status = st]
                  ELSE [me EXCEPT !.pc = "upl_quota"]]
  /\ UNCHANGED <<users, files, nextFileId, folders, permissions, blobs, shareVars, couponVars, accessVars, dreq, mreq, dispatched>>

UploadQuota(r) ==
  /\ req[r].pc = "upl_quota"
  /\ LET row == users[req[r].user]
         me == [req[r] EXCEPT !.rd_used = row.storage_used,
                              !.rd_quota = row.storage_quota]
     IN req' = [req EXCEPT ![r] =
                  IF QuotaExceeded(row.storage_used, req[r].sizes[1], row.storage_quota)
                  THEN [me EXCEPT !.pc = "done", !.status = 413,
                                  !.details =
                                    [fileSize |-> formatBytes(req[r].sizes[1]),
                                     availableSpace |->
                                       formatBytes(row.storage_quota - row.storage_used),
                                     quotaLimit |-> formatBytes(row.storage_quota)]]
                  ELSE [me EXCEPT !.pc = "upl_put"]]
  /\ UNCHANGED <<users, files, nextFileId, folders, permissions, blobs, shareVars, couponVars, accessVars, dreq, mreq, dispatched>>

\* backblazeService.uploadFile either stores the blob or throws; a thrown put
\* ends the request with 500.
\* Faulty variant, to show the properties tell it apart: the thrown put is swallowed and the handler goes on to record the file.
UploadPutIgnored(r) == [req[r] EXCEPT !.put = "failed", !.pc = "upl_insert"]

UploadPutFailed(r) == [Finish(r, 500) EXCEPT !.put = "failed"]

UploadPut(r) ==
  /\ req[r].pc = "upl_put"
  /\ \/ /\ blobs' = blobs \cup {BlobName(r, 1)}
        /\ req' = [req EXCEPT ![r] = [req[r] EXCEPT !.put = "ok", !.pc = "upl_insert"]]
     \/ /\ blobs' = blobs
        /\ req' = [req EXCEPT ![r] = UploadPutFailed(r)]
  /\ UNCHANGED <<users, files, nextFileId, folders, permissions, shareVars, couponVars, accessVars, dreq, mreq, dispatched>>

UploadInsert(r) ==
  /\ req[r].pc = "upl_insert"
  /\ IF InsertOk(req[r].folder)
     THEN /\ files' = [i \in DOMAIN files \cup {nextFileId} |->
                         IF i = nextFileId
                         THEN NewFile(req[r].user, req[r].folder, BlobName(r, 1),
                                      req[r].sizes[1])
                         ELSE files[i]]
          /\ nextFileId' = nextFileId + 1
          /\ req' = [req EXCEPT ![r] = [req[r] EXCEPT !.newId = nextFileId,
                                                      !.pc = "upl_commit"]]
     ELSE /\ req' = [req EXCEPT ![r] = Finish(r, 500)]
          /\ UNCHANGED <<files, nextFileId, shareVars, couponVars, accessVars, dreq, mreq, dispatched>>
  /\ UNCHANGED <<users, folders, permissions, blobs, shareVars, couponVars, accessVars, dreq, mreq, dispatched>>

\* UPDATE users SET storage_used = storage_used + $1 WHERE id = $2
UploadCommit(r) ==
  /\ req[r].pc = "upl_commit"
  /\ users' = [users EXCEPT ![req[r].user].storage_used = @ + req[r].sizes[1]]
  /\ req' = [req EXCEPT ![r] = [Finish(r, 201) EXCEPT !.successful = {1}]]
  /\ UNCHANGED <<files, nextFileId, folders, permissions, blobs, shareVars, couponVars, accessVars, dreq, mreq, dispatched>>

\* ------------------------------------- POST /upload/multiple (the batch)
Batches == UNION {[1..n -> Sizes] : n \in 1..MaxBatch}

\* Faulty variant, to show the properties tell it apart: admission looks at the first file alone instead of the batch total.
TotalUploadSizeFirstOnly(sizes) == sizes[1]

\* files.reduce((sum, file) => sum + file.size, 0)
TotalUploadSize(sizes) == SumSeq(sizes)

MultiStart(r, u, fo, sizes) ==
  /\ Free(r)
  /\ RoomFor(Len(sizes))
  /\ LET st == UploadFolderCheck(u, fo)
         me == [Blank EXCEPT !.kind = "multi", !.user = u, !.folder = fo,
                             !.sizes = sizes, !.idx = 1]
     IN req' = [req EXCEPT ![r] =
                  IF st # 0 THEN [me EXCEPT !.pc = "done", !.status = st]
                  ELSE [me EXCEPT !.pc = "mul_quota"]]
  /\ UNCHANGED <<users, files, nextFileId, folders, permissions, blobs, shareVars, couponVars, accessVars, dreq, mreq, dispatched>>

MultiQuota(r) ==
  /\ req[r].pc = "mul_quota"
  /\ LET row == users[req[r].user]
         me == [req[r] EXCEPT !.rd_used = row.storage_used,
                              !.rd_quota = row.storage_quota]
     IN req' = [req EXCEPT ![r] =
                  IF QuotaExceeded(row.storage_used, TotalUploadSize(req[r].sizes),
                                   row.storage_quota)
                  THEN [me EXCEPT !.pc = "done", !.status = 413,
                                  !.details =
                                    [totalUploadSize |->
                                       formatBytes(TotalUploadSize(req[r].sizes)),
                                     availableSpace |->
                                       formatBytes(row.storage_quota - row.storage_used),
                                     quotaLimit |-> formatBytes(row.storage_quota)]]
                  ELSE [me EXCEPT !.pc = "mul_put"]]
  /\ UNCHANGED <<users, files, nextFileId, folders, permissions, blobs, shareVars, couponVars, accessVars, dreq, mreq, dispatched>>

\* The loop goes on with the next file, or answers 201 after the last one.
MultiNext(me) ==
  IF me.idx = Len(me.sizes)
  THEN [me EXCEPT !.idx = @ + 1, !.pc = "done", !.status = 201]
  ELSE [me EXCEPT !.idx = @ + 1, !.pc = "mul_put"]

\* A throw inside the loop body is caught per file: the file is reported failed.
MultiFailed(r) == MultiNext([req[r] EXCEPT !.failed = @ \cup {req[r].idx}])

MultiPut(r) ==
  /\ req[r].pc = "mul_put"
  /\ \/ /\ blobs' = blobs \cup {BlobName(r, req[r].idx)}
        /\ req' = [req EXCEPT ![r] = [req[r] EXCEPT !.put = "ok", !.pc = "mul_insert"]]
     \/ /\ blobs' = blobs
        /\ req' = [req EXCEPT ![r] = [MultiFailed(r) EXCEPT !.put = "failed"]]
  /\ UNCHANGED <<users, files, nextFileId, folders, permissions, shareVars, couponVars, accessVars, dreq, mreq, dispatched>>

MultiInsert(r) ==
  /\ req[r].pc = "mul_insert"
  /\ IF InsertOk(req[r].folder)
     THEN /\ files' = [i \in DOMAIN files \cup {nextFileId} |->
                         IF i = nextFileId
                         THEN NewFile(req[r].user, req[r].folder,
                                      BlobName(r, req[r].idx),
                                      req[r].sizes[req[r].idx])
                         ELSE files[i]]
          /\ nextFileId' = nextFileId + 1
          /\ req' = [req EXCEPT ![r] = [req[r] EXCEPT !.newId = nextFileId,
                                                      !.pc = "mul_commit"]]
     ELSE /\ req' = [req EXCEPT ![r] = MultiFailed(r)]
          /\ UNCHANGED <<files, nextFileId, shareVars, couponVars, accessVars, dreq, mreq, dispatched>>
  /\ UNCHANGED <<users, folders, permissions, blobs, shareVars, couponVars, accessVars, dreq, mreq, dispatched>>

MultiCommit(r) ==
  /\ req[r].pc = "mul_commit"
  /\ users' = [users EXCEPT
                 ![req[r].user].storage_used = @ + req[r].sizes[req[r].idx]]
  /\ req' = [req EXCEPT ![r] =
               MultiNext([req[r] EXCEPT !.successful = @ \cup {req[r].idx}])]
  /\ UNCHANGED <<files, nextFileId, folders, permissions, blobs, shareVars, couponVars, accessVars, dreq, mreq, dispatched>>

\* The UPDATE users of the loop body rejects (the pool gives the error of the
\* connection or of the statement): the catch block of the loop body reports
\* the file failed, after its INSERT.
MultiCommitRejected(r) ==
  /\ req[r].pc = "mul_commit"
  /\ req' = [req EXCEPT ![r] = MultiFailed(r)]
  /\ UNCHANGED <<users, files, nextFileId, folders, permissions, blobs, shareVars, couponVars, accessVars, dreq, mreq, dispatched>>

\* ------------------------------------------------ DELETE /:fileId (file)
\* The selected row, as the handler keeps it in `file`.
FileSnap(id) ==
  [id |-> id, size |-> files[id].size, user_id |-> files[id].user_id,
   name |-> files[id].name, public_share_token |-> files[id].public_share_token]

\* Faulty variant, to show the properties tell it apart: create is let through.
CanDeleteWithCreate(level) == level \in {"owner", "edit", "create"}

CanDelete(level) == level = "owner" \/ level = "edit"

DeleteStart(r, u, f) ==
  /\ Free(r)
  /\ LET level == FileAccess(u, f)
         me == [Blank EXCEPT !.kind = "delete", !.user = u, !.target = f, !.idx = 1]
     IN req' = [req EXCEPT ![r] =
                  IF level = "none" THEN [me EXCEPT !.pc = "done", !.status = 404]
                  ELSE IF ~CanDelete(level)
                       THEN [me EXCEPT !.pc = "done", !.status = 403]
                  ELSE [me EXCEPT !.snap = <<FileSnap(f)>>, !.pc = "del_blob"]]
  /\ UNCHANGED <<users, files, nextFileId, folders, permissions, blobs, shareVars, couponVars, accessVars, dreq, mreq, dispatched>>

\* Faulty variant, to show the properties tell it apart: the error of deleteFile
\* reaches the handler's outer catch.
BlobDeleteThrows(r, pcNext) ==
  LET name == req[r].snap[req[r].idx].name
  IN \/ /\ name \in blobs
        /\ blobs' = blobs \ {name}
        /\ req' = [req EXCEPT ![r] = [req[r] EXCEPT !.del = "ok", !.pc = pcNext]]
     \/ /\ blobs' = blobs
        /\ req' = [req EXCEPT ![r] = [Finish(r, 500) EXCEPT !.del = "failed"]]

\* backblazeService.deleteFile removes the blob or throws (b2 also throws for a
\* blob that is no longer there); the handler logs the error and goes on.
BlobDelete(r, pcNext) ==
  LET name == req[r].snap[req[r].idx].name
  IN \/ /\ name \in blobs
        /\ blobs' = blobs \ {name}
        /\ req' = [req EXCEPT ![r] = [req[r] EXCEPT !.del = "ok", !.pc = pcNext]]
     \/ /\ blobs' = blobs
        /\ req' = [req EXCEPT ![r] = [req[r] EXCEPT !.del = "failed", !.pc = pcNext]]

DeleteBlob(r) ==
  /\ req[r].pc = "del_blob"
  /\ BlobDelete(r, "del_record")
  /\ UNCHANGED <<users, files, nextFileId, folders, permissions, shareVars, couponVars, accessVars, dreq, mreq, dispatched>>

\* DELETE FROM files WHERE id = $1: no row is no error.
RemoveFiles(ids) == [i \in DOMAIN files \ ids |-> files[i]]

DeleteRecord(r) ==
  /\ req[r].pc = "del_record"
  /\ files' = RemoveFiles({req[r].snap[1].id})
  /\ req' = [req EXCEPT ![r] = [req[r] EXCEPT !.pc = "del_commit"]]
  /\ UNCHANGED <<users, nextFileId, folders, permissions, blobs, shareVars, couponVars, accessVars, dreq, mreq, dispatched>>

\* UPDATE users SET storage_used = storage_used - $1 WHERE id = $2  (file.user_id)
Decrement(snap) ==
  [users EXCEPT ![snap.user_id].storage_used = @ - snap.size]

DeleteCommit(r) ==
  /\ req[r].pc = "del_commit"
  /\ users' = Decrement(req[r].snap[1])
  /\ req' = [req EXCEPT ![r] = [Finish(r, 200) EXCEPT !.deleted = {req[r].snap[1].id}]]
  /\ UNCHANGED <<files, nextFileId, folders, permissions, blobs, shareVars, couponVars, accessVars, dreq, mreq, dispatched>>

\* ----------------------------------------- DELETE /bulk (files router)
FoundFiles(u, ids) == {i \in ids : FileAccess(u, i) # "none"}
UnauthorizedFiles(u, ids) == {i \in FoundFiles(u, ids) : ~CanDelete(FileAccess(u, i))}
DeletableFiles(u, ids) == {i \in FoundFiles(u, ids) : CanDelete(FileAccess(u, i))}

SnapSeq(ids) == LET o == SortedSeq(ids) IN [k \in 1..Len(o) |-> FileSnap(o[k])]

BulkNext(me) ==
  IF me.idx >= Len(me.snap)
  THEN [me EXCEPT !.idx = @ + 1, !.pc = "done", !.status = 200]
  ELSE [me EXCEPT !.idx = @ + 1, !.pc = "blk_blob"]

BulkStart(r, u, ids) ==
  /\ Free(r)
  /\ ids # {}
  /\ LET me == [Blank EXCEPT !.kind = "bulk", !.user = u]
     IN req' = [req EXCEPT ![r] =
                  IF UnauthorizedFiles(u, ids) # {}
                  THEN [me EXCEPT !.pc = "done", !.status = 403]
                  ELSE BulkNext([me EXCEPT !.snap = SnapSeq(DeletableFiles(u, ids))])]
  /\ UNCHANGED <<users, files, nextFileId, folders, permissions, blobs, shareVars, couponVars, accessVars, dreq, mreq, dispatched>>

BulkBlob(r) ==
  /\ req[r].pc = "blk_blob"
  /\ BlobDelete(r, "blk_record")
  /\ UNCHANGED <<users, files, nextFileId, folders, permissions, shareVars, couponVars, accessVars, dreq, mreq, dispatched>>

BulkRecord(r) ==
  /\ req[r].pc = "blk_record"
  /\ files' = RemoveFiles({req[r].snap[req[r].idx].id})
  /\ req' = [req EXCEPT ![r] = [req[r] EXCEPT !.pc = "blk_commit"]]
  /\ UNCHANGED <<users, nextFileId, folders, permissions, blobs, shareVars, couponVars, accessVars, dreq, mreq, dispatched>>

BulkCommit(r) ==
  /\ req[r].pc = "blk_commit"
  /\ users' = Decrement(req[r].snap[req[r].idx])
  /\ req' = [req EXCEPT ![r] =
               BulkNext([req[r] EXCEPT !.deleted = @ \cup {req[r].snap[req[r].idx].id}])]
  /\ UNCHANGED <<files, nextFileId, folders, permissions, blobs, shareVars, couponVars, accessVars, dreq, mreq, dispatched>>

\* ------------------------------ DELETE /bulk/mixed (folders router)
\* Faulty variant, to show the properties tell it apart: the CASE without its
\* owner branch.
FolderAccessGrantsOnly(u, fo) ==
  IF fo \notin DOMAIN folders THEN "none" ELSE GrantOf(fo, u)

\* access_level of the row selected for a folder, "none" without a row.
FolderAccess(u, fo) ==
  IF fo \notin DOMAIN folders THEN "none"
  ELSE IF folders[fo].user_id = u THEN "owner"
  ELSE GrantOf(fo, u)

FoundFolders(u, ids) == {i \in ids : FolderAccess(u, i) # "none"}
DeletableFolders(u, ids) == {i \in ids : FolderAccess(u, i) = "owner"}
UnauthorizedFolders(u, ids) == FoundFolders(u, ids) \ DeletableFolders(u, ids)

\* The folders under a folder, itself included (parent_folder_id ... ON DELETE CASCADE).
RECURSIVE Subtree(_, _)
Subtree(S, n) ==
  IF n = 0 THEN S
  ELSE Subtree(S \cup {c \in DOMAIN folders : folders[c].parent_folder_id \in S}, n - 1)

MixedEnd(me) ==
  [me EXCEPT !.pc = "done", !.status = IF me.unauthorized THEN 403 ELSE 200]

MixedNextFolder(me) ==
  IF me.idx >= Len(me.dsnap) THEN MixedEnd([me EXCEPT !.idx = @ + 1])
  ELSE [me EXCEPT !.idx = @ + 1, !.pc = "mix_subcount"]

\* The folder SELECT and what the handler derives from its rows.
MixedFolderSelect(me) ==
  MixedNextFolder(
    [me EXCEPT !.dsnap = SortedSeq(DeletableFolders(me.user, me.fids)),
               !.unauthorized = @ \/ UnauthorizedFolders(me.user, me.fids) # {},
               !.idx = 0])

\* The file SELECT and the loop over the deletable files.  The loop body starts
\* with require('../services/backblaze'), a module the repository does not have
\* (the service is config/backblaze): the require throws, the per-file catch
\* reports the file failed and no file row is removed.
MixedFileSelect(me, ids) ==
  [me EXCEPT !.failed = DeletableFiles(me.user, ids),
             !.unauthorized = UnauthorizedFiles(me.user, ids) # {}]

MixedStart(r, u, ids, fids) ==
  /\ Free(r)
  /\ LET me == [Blank EXCEPT !.kind = "mixed", !.user = u, !.fids = fids]
     IN req' = [req EXCEPT ![r] =
                  IF ids = {} /\ fids = {} THEN [me EXCEPT !.pc = "done", !.status = 400]
                  ELSE IF ids = {} THEN MixedFolderSelect(me)
                  ELSE IF fids = {} THEN MixedEnd(MixedFileSelect(me, ids))
                  ELSE [MixedFileSelect(me, ids) EXCEPT !.pc = "mix_folders"]]
  /\ UNCHANGED <<users, files, nextFileId, folders, permissions, blobs, shareVars, couponVars, accessVars, dreq, mreq, dispatched>>

MixedFolders(r) ==
  /\ req[r].pc = "mix_folders"
  /\ req' = [req EXCEPT ![r] = MixedFolderSelect(req[r])]
  /\ UNCHANGED <<users, files, nextFileId, folders, permissions, blobs, shareVars, couponVars, accessVars, dreq, mreq, dispatched>>

MixedSubCount(r) ==
  /\ req[r].pc = "mix_subcount"
  /\ LET fo == req[r].dsnap[req[r].idx]
     IN req' = [req EXCEPT ![r] =
                  [req[r] EXCEPT
                     !.subCount = Cardinality({c \in DOMAIN folders :
                                                 folders[c].parent_folder_id = fo}),
                     !.pc = "mix_filecount"]]
  /\ UNCHANGED <<users, files, nextFileId, folders, permissions, blobs, shareVars, couponVars, accessVars, dreq, mreq, dispatched>>

MixedFileCount(r) ==
  /\ req[r].pc = "mix_filecount"
  /\ LET fo == req[r].dsnap[req[r].idx]
         n == Cardinality({i \in DOMAIN files : files[i].folder_id = fo})
     IN req' = [req EXCEPT ![r] =
                  IF req[r].subCount > 0 \/ n > 0
                  THEN MixedNextFolder([req[r] EXCEPT !.nonEmpty = @ \cup {fo}])
                  ELSE [req[r] EXCEPT !.pc = "mix_delperm"]]
  /\ UNCHANGED <<users, files, nextFileId, folders, permissions, blobs, shareVars, couponVars, accessVars, dreq, mreq, dispatched>>

MixedDelPerm(r) ==
  /\ req[r].pc = "mix_delperm"
  /\ permissions' = {p \in permissions : p.folder_id # req[r].dsnap[req[r].idx]}
  /\ req' = [req EXCEPT ![r] = [req[r] EXCEPT !.pc = "mix_delfolder"]]
  /\ UNCHANGED <<users, files, nextFileId, folders, blobs, shareVars, couponVars, accessVars, dreq, mreq, dispatched>>

\* DELETE FROM folders WHERE id = $1, with the schema's ON DELETE CASCADE on
\* folders.parent_folder_id, files.folder_id and permissions.folder_id.
MixedDelFolder(r) ==
  /\ req[r].pc = "mix_delfolder"
  /\ LET fo == req[r].dsnap[req[r].idx]
         gone == IF fo \in DOMAIN folders
                 THEN Subtree({fo}, Cardinality(DOMAIN folders)) ELSE {}
     IN /\ folders' = [i \in DOMAIN folders \ gone |-> folders[i]]
        /\ files' = RemoveFiles({i \in DOMAIN files : files[i].folder_id \in gone})
        /\ permissions' = {p \in permissions : p.folder_id \notin gone}
        /\ req' = [req EXCEPT ![r] =
                     MixedNextFolder([req[r] EXCEPT !.fdeleted = @ \cup {fo}])]
  /\ UNCHANGED <<users, nextFileId, blobs, shareVars, couponVars, accessVars, dreq, mreq, dispatched>>

\* ------------------------------------ GET /stats (storage router): reconcile
StatsStart(r, u) ==
  /\ Free(r)
  /\ req' = [req EXCEPT ![r] =
               [Blank EXCEPT !.kind = "stats", !.user = u,
                             !.rd_used = users[u].storage_used,
                             !.rd_quota = users[u].storage_quota,
                             !.pc = "st_sum"]]
  /\ UNCHANGED <<users, files, nextFileId, folders, permissions, blobs, shareVars, couponVars, accessVars, dreq, mreq, dispatched>>

StatsSum(r) ==
  /\ req[r].pc = "st_sum"
  /\ req' = [req EXCEPT ![r] = [req[r] EXCEPT !.actualUsed = ActualUsed(req[r].user),
                                              !.pc = "st_sync"]]
  /\ UNCHANGED <<users, files, nextFileId, folders, permissions, blobs, shareVars, couponVars, accessVars, dreq, mreq, dispatched>>

\* Faulty variant, to show the properties tell it apart: the recomputed sum is reported but never written back.
ReconciledNotPersisted(r) == users

\* if (actualUsed !== parseInt(storage_used)) UPDATE users SET storage_used = $1
Reconciled(r) ==
  IF req[r].actualUsed # req[r].rd_used
  THEN [users EXCEPT ![req[r].user].storage_used = req[r].actualUsed]
  ELSE users

StatsSync(r) ==
  /\ req[r].pc = "st_sync"
  /\ users' = Reconciled(r)
  /\ req' = [req EXCEPT ![r] = Finish(r, 200)]
  /\ UNCHANGED <<files, nextFileId, folders, permissions, blobs, shareVars, couponVars, accessVars, dreq, mreq, dispatched>>

\* ---------------------------------------------- Redis cache of public shares
MaxTokens == 2
MaxShareReq == 2
MaxExpiresIn == 2
MaxClockHours == 2
MaxDownloads == 2

\* expiresIn * 3600: the hours of a share in seconds.
SecondsPerHour == 3600

\* "Re-cache for 1 hour".
RecacheSeconds == 3600

Tokens == 1..MaxTokens
SReq == 1..MaxShareReq
ExpiresIn == 1..MaxExpiresIn

\* getPublicShare yields null: no descriptor.
NoData == [fileId |-> NULL, mimeType |-> "", hasThumbnail |-> "undefined"]

NoEntry == [data |-> NoData, expireAt |-> 0]

\* RedisService.set: SETEX key ttl value, or false when not connected.
CacheSet(t, d, ttl) ==
  IF isConnected THEN [cache EXCEPT ![t] = [data |-> d, expireAt |-> now + ttl]]
  ELSE cache

\* A get that answers from the stored entries whatever the connection.
CacheGetWhileDisconnected(t) ==
  IF cache[t].expireAt > now THEN cache[t].data ELSE NoData

\* RedisService.get: the value of a key that has not expired, or null; null
\* when not connected.
CacheGet(t) ==
  IF isConnected /\ cache[t].expireAt > now THEN cache[t].data ELSE NoData

\* RedisService.del: DEL key, or false when not connected.
CacheDel(t) == IF isConnected THEN [cache EXCEPT ![t] = NoEntry] ELSE cache

\* shareData as POST /:fileId/share, GET /public/:t and /view build it from the
\* row: it has no hasThumbnail and no thumbnailPath.
ShareData(id, row) ==
  [fileId |-> id, mimeType |-> row.mime_type, hasThumbnail |-> "undefined"]

\* shareData as GET /public/:t/thumbnail builds it (thumbnail_path is set
\* exactly when has_thumbnail is).
ThumbnailData(id, row) ==
  [fileId |-> id, mimeType |-> row.mime_type,
   hasThumbnail |-> IF row.has_thumbnail THEN "true" ELSE "false"]

\* The MIME types of the model and, of the three literal prefixes the routes
\* test with startsWith, those each of them begins with.
MimeTypes == {"image/png", "video/mp4", "application/pdf", "application/pdfx", "text/plain"}

PrefixesOf(mime) ==
  CASE mime = "image/png" -> {"image/"}
    [] mime = "video/mp4" -> {"video/"}
    [] mime \in {"application/pdf", "application/pdfx"} -> {"application/pdf"}
    [] OTHER -> {}

\* String.prototype.startsWith
StartsWith(mime, prefix) == prefix \in PrefixesOf(mime)

\* GET /:fileId/view: supportedTypes.some(type => mime.startsWith(type) || mime === type)
IsSupported(mime) ==
  \E type \in {"image/", "video/", "application/pdf"} : StartsWith(mime, type) \/ mime = type

\* mime.startsWith('image/') || mime.startsWith('video/') || mime === 'application/pdf'
InlineType(mime) ==
  StartsWith(mime, "image/") \/ StartsWith(mime, "video/") \/ mime = "application/pdf"

\* GET /public/:shareToken/view serves the types that are shown inline.
Viewable(mime) == InlineType(mime)

SBlank ==
  [kind |-> "idle", pc |-> "idle", user |-> NULL, file |-> NULL,
   token |-> NULL, oldToken |-> NULL, data |-> NoData,
   expiresIn |-> 0, deadline |-> 0, after |-> {}, status |-> 0]

\* A slot is available when it has had no request or when the public read it
\* had has been answered; the lowest available slot takes the next request.
Available(r) ==
  \/ sreq[r].kind = "idle"
  \/ sreq[r].pc = "done" /\ sreq[r].kind \in {"download", "view", "thumbnail", "info"}

SFree(r) == Available(r) /\ \A q \in SReq : q < r => ~Available(q)

SFinish(me, st) == [me EXCEPT !.pc = "done", !.status = st]

\* SELECT * FROM files WHERE public_share_token = $1 AND is_public = TRUE
RowsByToken(t) ==
  {i \in DOMAIN files : files[i].public_share_token = t /\ files[i].is_public}

storageVars == <<users, nextFileId, folders, permissions, blobs, req>>

\* ------------------------------------------------- POST /:fileId/share
ShareStart(r, u, f, h) ==
  /\ SFree(r)
  /\ nextToken <= MaxTokens
  /\ LET level == FileAccess(u, f)
         me == [SBlank EXCEPT !.kind = "share", !.user = u, !.file = f,
                              !.expiresIn = h]
     IN IF level = "none"
        THEN sreq' = [sreq EXCEPT ![r] = SFinish(me, 404)] /\ nextToken' = nextToken
        ELSE IF ~CanDelete(level)
        THEN sreq' = [sreq EXCEPT ![r] = SFinish(me, 403)] /\ nextToken' = nextToken
        ELSE /\ sreq' = [sreq EXCEPT ![r] =
                  [me EXCEPT !.pc = "sh_update", !.token = nextToken,
                             !.oldToken = files[f].public_share_token,
                             !.data = ShareData(f, files[f])]]
             /\ nextToken' = nextToken + 1
  /\ UNCHANGED <<storageVars, files, cache, isConnected, now, couponVars, accessVars, dreq, mreq, dispatched>>

\* UPDATE files SET public_share_token = $1, is_public = TRUE WHERE id = $2
ShareUpdate(r) ==
  /\ sreq[r].pc = "sh_update"
  /\ files' = [i \in DOMAIN files |->
                 IF i = sreq[r].file
                 THEN [files[i] EXCEPT !.public_share_token = sreq[r].token,
                                       !.is_public = TRUE]
                 ELSE files[i]]
  /\ sreq' = [sreq EXCEPT ![r] = [sreq[r] EXCEPT !.pc = "sh_cache"]]
  /\ UNCHANGED <<storageVars, cache, isConnected, now, nextToken, couponVars, accessVars, dreq, mreq, dispatched>>

\* cachePublicShare(shareToken, shareData, expiresIn * 3600), then the response.
ShareCache(r) ==
  /\ sreq[r].pc = "sh_cache"
  /\ cache' = CacheSet(sreq[r].token, sreq[r].data, sreq[r].expiresIn * SecondsPerHour)
  /\ sreq' = [sreq EXCEPT ![r] =
                [SFinish(sreq[r], 200) EXCEPT
                   !.deadline = now + sreq[r].expiresIn * SecondsPerHour]]
  /\ UNCHANGED <<storageVars, files, isConnected, now, nextToken, couponVars, accessVars, dreq, mreq, dispatched>>

\* ------------------------------------------------ DELETE /:fileId/share
RevokeStart(r, u, f) ==
  /\ SFree(r)
  /\ LET me == [SBlank EXCEPT !.kind = "revoke", !.user = u, !.file = f]
     IN sreq' = [sreq EXCEPT ![r] =
                  IF f \in DOMAIN files /\ files[f].user_id = u
                  THEN [me EXCEPT !.pc = "rv_update",
                                  !.oldToken = files[f].public_share_token]
                  ELSE SFinish(me, 404)]
  /\ UNCHANGED <<storageVars, files, cache, isConnected, now, nextToken, couponVars, accessVars, dreq, mreq, dispatched>>

\* A row whose is_public is cleared and whose token is kept.
UnsharedFlagOnly(row) == [row EXCEPT !.is_public = FALSE]

\* SET public_share_token = NULL, is_public = FALSE
Unshared(row) == [row EXCEPT !.public_share_token = NULL, !.is_public = FALSE]

\* UPDATE files SET public_share_token = NULL, is_public = FALSE WHERE id = $1;
\* with no token in the row that was read, the response follows at once.
RevokeUpdate(r) ==
  /\ sreq[r].pc = "rv_update"
  /\ files' = [i \in DOMAIN files |->
                 IF i = sreq[r].file THEN Unshared(files[i]) ELSE files[i]]
  /\ sreq' = [sreq EXCEPT ![r] =
                IF sreq[r].oldToken = NULL THEN SFinish(sreq[r], 200)
                ELSE [sreq[r] EXCEPT !.pc = "rv_del"]]
  /\ UNCHANGED <<storageVars, cache, isConnected, now, nextToken, couponVars, accessVars, dreq, mreq, dispatched>>

\* redisService.del(`public:${file.public_share_token}`), then the response.
RevokeDel(r) ==
  /\ sreq[r].pc = "rv_del"
  /\ cache' = CacheDel(sreq[r].oldToken)
  /\ sreq' = [sreq EXCEPT ![r] = SFinish(sreq[r], 200)]
  /\ UNCHANGED <<storageVars, files, isConnected, now, nextToken, couponVars, accessVars, dreq, mreq, dispatched>>

\* ------------------------------------------------------- public routes
Routes == {"download", "view", "thumbnail", "info"}

\* What had been acknowledged for token t when a public request arrives.
RevokeAcked(t) ==
  \E q \in SReq : /\ sreq[q].kind = "revoke" /\ sreq[q].pc = "done"
                  /\ sreq[q].status = 200 /\ sreq[q].oldToken = t

ReshareAcked(t) ==
  \E q \in SReq : /\ sreq[q].kind = "share" /\ sreq[q].pc = "done"
                  /\ sreq[q].status = 200 /\ sreq[q].oldToken = t

DeleteAcked(t) ==
  \E q \in Req : /\ req[q].kind = "delete" /\ req[q].pc = "done"
                 /\ req[q].status = 200
                 /\ req[q].snap[1].public_share_token = t

ExpiryPassed(t) ==
  \E q \in SReq : /\ sreq[q].kind = "share" /\ sreq[q].pc = "done"
                  /\ sreq[q].status = 200 /\ sreq[q].token = t
                  /\ now >= sreq[q].deadline

ArrivedAfter(t) ==
  {e \in {"revoke", "reshare", "delete", "expiry"} :
     \/ e = "revoke" /\ RevokeAcked(t)
     \/ e = "reshare" /\ ReshareAcked(t)
     \/ e = "delete" /\ DeleteAcked(t)
     \/ e = "expiry" /\ ExpiryPassed(t)}

\* The handler once it holds shareData, up to its next await or its response.
WithData(me) ==
  CASE me.kind = "info" -> SFinish(me, 200)
    [] me.kind = "thumbnail" ->
         IF me.data.hasThumbnail = "true" THEN SFinish(me, 200) ELSE SFinish(me, 404)
    [] me.kind = "view" ->
         IF Viewable(me.data.mimeType) THEN [me EXCEPT !.pc = "pub_name"]
         ELSE SFinish(me, 400)
    [] OTHER -> [me EXCEPT !.pc = "pub_count"]

\* let shareData = await redisService.getPublicShare(shareToken)
PublicGet(r, route, t) ==
  /\ SFree(r)
  /\ t < nextToken
  /\ \A i \in DOMAIN files : files[i].download_count < MaxDownloads
  /\ LET d == CacheGet(t)
         me == [SBlank EXCEPT !.kind = route, !.token = t, !.data = d,
                              !.after = ArrivedAfter(t)]
     IN sreq' = [sreq EXCEPT ![r] =
                  IF d = NoData THEN [me EXCEPT !.pc = "pub_db"] ELSE WithData(me)]
  /\ UNCHANGED <<storageVars, files, cache, isConnected, now, nextToken, couponVars, accessVars, dreq, mreq, dispatched>>

\* The database fallback; /info answers from the row without caching it.
PublicDb(r) ==
  /\ sreq[r].pc = "pub_db"
  /\ LET rows == RowsByToken(sreq[r].token)
         id == CHOOSE i \in rows : TRUE
         d == IF sreq[r].kind = "thumbnail" THEN ThumbnailData(id, files[id])
              ELSE ShareData(id, files[id])
         me == [sreq[r] EXCEPT !.data = d]
     IN sreq' = [sreq EXCEPT ![r] =
                  IF rows = {} THEN SFinish(sreq[r], 404)
                  ELSE IF sreq[r].kind = "info" THEN SFinish(me, 200)
                  ELSE [me EXCEPT !.pc = "pub_cache"]]
  /\ UNCHANGED <<storageVars, files, cache, isConnected, now, nextToken, couponVars, accessVars, dreq, mreq, dispatched>>

\* await redisService.cachePublicShare(shareToken, shareData, 3600)
PublicRecache(r) ==
  /\ sreq[r].pc = "pub_cache"
  /\ cache' = CacheSet(sreq[r].token, sreq[r].data, RecacheSeconds)
  /\ sreq' = [sreq EXCEPT ![r] = WithData(sreq[r])]
  /\ UNCHANGED <<storageVars, files, isConnected, now, nextToken, couponVars, accessVars, dreq, mreq, dispatched>>

\* UPDATE files SET download_count = download_count + 1 WHERE id = $1
PublicCount(r) ==
  /\ sreq[r].pc = "pub_count"
  /\ files' = [i \in DOMAIN files |->
                 IF i = sreq[r].data.fileId
                 THEN [files[i] EXCEPT !.download_count = @ + 1]
                 ELSE files[i]]
  /\ sreq' = [sreq EXCEPT ![r] = [sreq[r] EXCEPT !.pc = "pub_name"]]
  /\ UNCHANGED <<storageVars, cache, isConnected, now, nextToken, couponVars, accessVars, dreq, mreq, dispatched>>

\* SELECT name FROM files WHERE id = $1, then the proxied content.
PublicName(r) ==
  /\ sreq[r].pc = "pub_name"
  /\ sreq' = [sreq EXCEPT ![r] =
                IF sreq[r].data.fileId \in DOMAIN files THEN SFinish(sreq[r], 200)
                ELSE SFinish(sreq[r], 404)]
  /\ UNCHANGED <<storageVars, files, cache, isConnected, now, nextToken, couponVars, accessVars, dreq, mreq, dispatched>>

\* ------------------------------------------------- clock and connection
Tick ==
  /\ now < MaxClockHours * SecondsPerHour
  /\ now' = now + SecondsPerHour
  /\ UNCHANGED <<storageVars, files, cache, isConnected, nextToken, sreq, couponVars, accessVars, dreq, mreq, dispatched>>

\* client.on('error'): isConnected = false
RedisError ==
  /\ isConnected
  /\ isConnected' = FALSE
  /\ UNCHANGED <<storageVars, files, cache, now, nextToken, sreq, couponVars, accessVars, dreq, mreq, dispatched>>

\* client.on('connect'): isConnected = true
RedisConnect ==
  /\ ~isConnected
  /\ isConnected' = TRUE
  /\ UNCHANGED <<storageVars, files, cache, now, nextToken, sreq, couponVars, accessVars, dreq, mreq, dispatched>>

\* ------------------------------------- POST /redeem-coupon (storage router)
MaxRedeem == 2
MaxConns == 2
MaxUses == 2
StorageBonus == 1

CReq == 1..MaxRedeem
Conns == 1..MaxConns

\* The row of coupon_redemptions a user gets for the coupon: UNIQUE(user_id, coupon_id).
RedemptionKey(u) == <<u, 1>>

\* What a connection has written in its open transaction.
NoPending == [quota |-> [u \in Users |-> 0], ins |-> {}, uses |-> 0]

\* A connection of the pool: whether it has been opened, its transaction
\* status (none, open, aborted) and the uncommitted writes.
NewConn == [created |-> FALSE, txn |-> "none", pending |-> NoPending]

CBlank ==
  [pc |-> "idle", user |-> NULL, code |-> NULL, conn |-> NULL,
   then |-> 0, error |-> "", prior |-> FALSE, status |-> 0]

CFree(r) == creq[r].pc = "idle" /\ \A q \in CReq : q < r => creq[q].pc # "idle"

fileVars == <<files, nextFileId, folders, permissions, blobs, req, shareVars>>

\* pool.query takes the connection that was released last, or opens a new one
\* when none is idle and the pool is not full; otherwise the query waits.
PoolAcquire(r) ==
  /\ creq[r].pc \notin {"idle", "done"}
  /\ creq[r].conn = NULL
  /\ \/ /\ idle # <<>>
        /\ creq' = [creq EXCEPT ![r].conn = idle[Len(idle)]]
        /\ idle' = SubSeq(idle, 1, Len(idle) - 1)
        /\ conns' = conns
     \/ /\ idle = <<>>
        /\ \E c \in Conns :
             /\ ~conns[c].created
             /\ \A d \in Conns : d < c => conns[d].created
             /\ creq' = [creq EXCEPT ![r].conn = c]
             /\ conns' = [conns EXCEPT ![c].created = TRUE]
        /\ idle' = idle
  /\ UNCHANGED <<users, fileVars, redemptions, coupon, accessVars, dreq, mreq, dispatched>>

\* The query is answered: the connection goes back to the pool and the handler
\* goes on at pc.
Answered(r, pc) == [creq[r] EXCEPT !.conn = NULL, !.pc = pc]

\* catch (innerError): ROLLBACK, then 500 from the outer catch.
Failed(r) == [Answered(r, "rc_rollback") EXCEPT !.then = 500]

\* The early returns: ROLLBACK, then 400 with the error e ("invalid": 'Invalid
\* or expired coupon code', "already": 'You have already redeemed this coupon').
Rejected(r, e) == [Answered(r, "rc_rollback") EXCEPT !.then = 400, !.error = e]

\* A redemption of the coupon by user u has been answered 200.
RedeemAcked(u) ==
  \E q \in CReq : creq[q].pc = "done" /\ creq[q].status = 200 /\ creq[q].user = u

Holds(r, pc) == creq[r].pc = pc /\ creq[r].conn # NULL

Release(r) == idle' = Append(idle, creq[r].conn)

RedeemStart(r, u, code) ==
  /\ CFree(r)
  /\ creq' = [creq EXCEPT ![r] =
                IF code = NULL THEN [CBlank EXCEPT !.pc = "done", !.user = u, !.status = 400]
                ELSE [CBlank EXCEPT !.pc = "rc_begin", !.user = u, !.code = code,
                                    !.prior = RedeemAcked(u)]]
  /\ UNCHANGED <<users, fileVars, conns, idle, redemptions, coupon, accessVars, dreq, mreq, dispatched>>

\* BEGIN: opens a transaction on the connection it runs on; a warning when one
\* is open there already; an error (outside the inner try) when that one has
\* aborted.
RedeemBegin(r) ==
  /\ Holds(r, "rc_begin")
  /\ LET c == creq[r].conn
     IN /\ conns' = [conns EXCEPT ![c].txn = IF @ = "none" THEN "open" ELSE @]
        /\ creq' = [creq EXCEPT ![r] =
                      IF conns[c].txn = "aborted"
                      THEN [Answered(r, "done") EXCEPT !.status = 500]
                      ELSE Answered(r, "rc_coupon")]
  /\ Release(r)
  /\ UNCHANGED <<users, fileVars, redemptions, coupon, accessVars, dreq, mreq, dispatched>>

\* SELECT * FROM coupons WHERE code = $1 AND is_active AND current_uses < max_uses
RedeemSelectCoupon(r) ==
  /\ Holds(r, "rc_coupon")
  /\ LET c == creq[r].conn
         uses == coupon.current_uses + conns[c].pending.uses
     IN creq' = [creq EXCEPT ![r] =
                  IF conns[c].txn = "aborted" THEN Failed(r)
                  ELSE IF uses < coupon.max_uses THEN Answered(r, "rc_check")
                  ELSE Rejected(r, "invalid")]
  /\ Release(r)
  /\ UNCHANGED <<users, fileVars, conns, redemptions, coupon, accessVars, dreq, mreq, dispatched>>

\* SELECT id FROM coupon_redemptions WHERE user_id = $1 AND coupon_id = $2
RedeemCheck(r) ==
  /\ Holds(r, "rc_check")
  /\ LET c == creq[r].conn
         seen == redemptions \cup conns[c].pending.ins
     IN creq' = [creq EXCEPT ![r] =
                  IF conns[c].txn = "aborted" THEN Failed(r)
                  ELSE IF RedemptionKey(creq[r].user) \in seen THEN Rejected(r, "already")
                  ELSE Answered(r, "rc_quota")]
  /\ Release(r)
  /\ UNCHANGED <<users, fileVars, conns, redemptions, coupon, accessVars, dreq, mreq, dispatched>>

\* Another connection's open transaction holds the row lock.
QuotaLocked(c, u) ==
  \E d \in Conns \ {c} : conns[d].txn # "none" /\ conns[d].pending.quota[u] > 0

InsertLocked(c, k) ==
  \E d \in Conns \ {c} : conns[d].txn # "none" /\ k \in conns[d].pending.ins

UsesLocked(c) ==
  \E d \in Conns \ {c} : conns[d].txn # "none" /\ conns[d].pending.uses > 0

\* UPDATE users SET storage_quota = storage_quota + $1 WHERE id = $2
RedeemUpdateQuota(r) ==
  /\ Holds(r, "rc_quota")
  /\ LET c == creq[r].conn
         u == creq[r].user
     IN /\ ~QuotaLocked(c, u)
        /\ users' = IF conns[c].txn = "none"
                    THEN [users EXCEPT ![u].storage_quota = @ + StorageBonus]
                    ELSE users
        /\ conns' = IF conns[c].txn = "open"
                    THEN [conns EXCEPT ![c].pending.quota[u] = @ + StorageBonus]
                    ELSE conns
        /\ creq' = [creq EXCEPT ![r] =
                      IF conns[c].txn = "aborted" THEN Failed(r)
                      ELSE Answered(r, "rc_insert")]
  /\ Release(r)
  /\ UNCHANGED <<fileVars, redemptions, coupon, accessVars, dreq, mreq, dispatched>>

\* INSERT INTO coupon_redemptions: a second row for the pair is a unique
\* violation, which aborts the transaction it runs in.
RedeemInsert(r) ==
  /\ Holds(r, "rc_insert")
  /\ LET c == creq[r].conn
         k == RedemptionKey(creq[r].user)
         dup == k \in redemptions \cup conns[c].pending.ins
     IN /\ ~InsertLocked(c, k)
        /\ redemptions' = IF conns[c].txn = "none" /\ ~dup
                          THEN redemptions \cup {k} ELSE redemptions
        /\ conns' = IF conns[c].txn = "open"
                    THEN IF dup THEN [conns EXCEPT ![c].txn = "aborted"]
                         ELSE [conns EXCEPT ![c].pending.ins = @ \cup {k}]
                    ELSE conns
        /\ creq' = [creq EXCEPT ![r] =
                      IF conns[c].txn = "aborted" \/ dup THEN Failed(r)
                      ELSE Answered(r, "rc_uses")]
  /\ Release(r)
  /\ UNCHANGED <<users, fileVars, coupon, accessVars, dreq, mreq, dispatched>>

\* UPDATE coupons SET current_uses = current_uses + 1 WHERE id = $1
RedeemUpdateUses(r) ==
  /\ Holds(r, "rc_uses")
  /\ LET c == creq[r].conn
     IN /\ ~UsesLocked(c)
        /\ coupon' = IF conns[c].txn = "none"
                     THEN [coupon EXCEPT !.current_uses = @ + 1]
                     ELSE coupon
        /\ conns' = IF conns[c].txn = "open"
                    THEN [conns EXCEPT ![c].pending.uses = @ + 1]
                    ELSE conns
        /\ creq' = [creq EXCEPT ![r] =
                      IF conns[c].txn = "aborted" THEN Failed(r)
                      ELSE Answered(r, "rc_commit")]
  /\ Release(r)
  /\ UNCHANGED <<users, fileVars, redemptions, accessVars, dreq, mreq, dispatched>>

\* The end of the transaction on connection c: its writes become permanent on
\* COMMIT of an open transaction and are dropped otherwise.
EndTransaction(c, keep) ==
  /\ users' = IF keep
              THEN [u \in Users |->
                      [users[u] EXCEPT !.storage_quota = @ + conns[c].pending.quota[u]]]
              ELSE users
  /\ redemptions' = IF keep THEN redemptions \cup conns[c].pending.ins ELSE redemptions
  /\ coupon' = IF keep
               THEN [coupon EXCEPT !.current_uses = @ + conns[c].pending.uses]
               ELSE coupon
  /\ conns' = [conns EXCEPT ![c].txn = "none", ![c].pending = NoPending]

\* COMMIT, then the 200 response; COMMIT of an aborted transaction rolls back
\* and raises no error.
RedeemCommit(r) ==
  /\ Holds(r, "rc_commit")
  /\ EndTransaction(creq[r].conn, conns[creq[r].conn].txn = "open")
  /\ creq' = [creq EXCEPT ![r] = [Answered(r, "done") EXCEPT !.status = 200]]
  /\ Release(r)
  /\ UNCHANGED <<fileVars, accessVars, dreq, mreq, dispatched>>

\* ROLLBACK, then the 400 or 500 response.
RedeemRollback(r) ==
  /\ Holds(r, "rc_rollback")
  /\ EndTransaction(creq[r].conn, FALSE)
  /\ creq' = [creq EXCEPT ![r] = [Answered(r, "done") EXCEPT !.status = creq[r].then]]
  /\ Release(r)
  /\ UNCHANGED <<fileVars, accessVars, dreq, mreq, dispatched>>

\* ------------------------------------------- folders router and file reads
MaxFolders == 3
MaxAccessReq == 2

AReq == 1..MaxAccessReq
AllFolderIds == 1..MaxFolders
Names == {"a", "b"}

\* An id that names no folder and no file.
NoSuchId == MaxFolders + MaxFiles + 1

ABlank ==
  [kind |-> "idle", pc |-> "idle", user |-> NULL, target |-> NULL,
   parent |-> NULL, name |-> "", access |-> "", status |-> 0,
   file_count |-> 0, subfolder_count |-> 0, rows |-> {}]

\* A slot takes the next request once its previous one is answered; the lowest
\* such slot takes it.
AFree(r) ==
  /\ areq[r].pc \in {"idle", "done"}
  /\ \A q \in AReq : q < r => areq[q].pc \notin {"idle", "done"}

AFinish(me, st) == [me EXCEPT !.pc = "done", !.status = st]

dbVars == <<users, files, nextFileId, folders, permissions, blobs, nextFolderId>>

otherReqs == <<req, shareVars, couponVars, dreq, mreq, dispatched>>

SubfoldersOf(fo) == {c \in DOMAIN folders : folders[c].parent_folder_id = fo}

FilesIn(fo) == {i \in DOMAIN files : files[i].folder_id = fo}

\* COUNT(x.id) over folders f LEFT JOIN x LEFT JOIN y: every x row is repeated
\* once per y row of the same folder.
JoinCount(nx, ny) == IF nx = 0 THEN 0 ELSE nx * (IF ny = 0 THEN 1 ELSE ny)

\* file_count and subfolder_count as GET /:folderId and GET / report them.
ReportedFileCount(fo) ==
  JoinCount(Cardinality(FilesIn(fo)), Cardinality(SubfoldersOf(fo)))

ReportedSubfolderCount(fo) ==
  JoinCount(Cardinality(SubfoldersOf(fo)), Cardinality(FilesIn(fo)))

\* GET /:folderId
FolderGet(r, u, fo) ==
  /\ AFree(r)
  /\ LET level == FolderAccess(u, fo)
         me == [ABlank EXCEPT !.kind = "folder_get", !.user = u, !.target = fo]
     IN areq' = [areq EXCEPT ![r] =
                  IF level = "none" THEN AFinish(me, 404)
                  ELSE [AFinish(me, 200) EXCEPT
                          !.access = level,
                          !.file_count = ReportedFileCount(fo),
                          !.subfolder_count = ReportedSubfolderCount(fo)]]
  /\ UNCHANGED <<dbVars, otherReqs>>

\* f.parent_folder_id = $2, or f.parent_folder_id IS NULL without the parameter.
\* GET /?parent_folder_id=
FolderList(r, u, parent) ==
  /\ AFree(r)
  /\ areq' = [areq EXCEPT ![r] =
                [AFinish(ABlank, 200) EXCEPT
                   !.kind = "folder_list", !.user = u, !.parent = parent,
                   !.rows = {f \in DOMAIN folders :
                               /\ FolderAccess(u, f) # "none"
                               /\ folders[f].parent_folder_id = parent}]]
  /\ UNCHANGED <<dbVars, otherReqs>>

FileRoutes == {"file_get", "file_download", "file_view", "file_thumbnail"}

\* GET /:fileId, /:fileId/download, /:fileId/view, /:fileId/thumbnail: the
\* access query and what follows it up to the next await or the response.
FileRead(r, u, route, f) ==
  /\ AFree(r)
  /\ (route = "file_download" /\ f \in DOMAIN files) => files[f].download_count < MaxDownloads
  /\ LET level == FileAccess(u, f)
         me == [ABlank EXCEPT !.kind = route, !.user = u, !.target = f,
                              !.access = IF level = "none" THEN "" ELSE level]
     IN areq' = [areq EXCEPT ![r] =
                  IF level = "none" THEN AFinish(me, 404)
                  ELSE CASE route = "file_get" -> AFinish(me, 200)
                         [] route = "file_download" -> [me EXCEPT !.pc = "fdl_count"]
                         [] route = "file_view" ->
                              IF IsSupported(files[f].mime_type) THEN AFinish(me, 200)
                              ELSE AFinish(me, 400)
                         [] OTHER ->
                              IF files[f].has_thumbnail THEN AFinish(me, 200)
                              ELSE AFinish(me, 404)]
  /\ UNCHANGED <<dbVars, otherReqs>>

\* UPDATE files SET download_count = download_count + 1 WHERE id = $1, then the
\* proxied content.
FileDownloadCount(r) ==
  /\ areq[r].pc = "fdl_count"
  /\ files' = [i \in DOMAIN files |->
                 IF i = areq[r].target
                 THEN [files[i] EXCEPT !.download_count = @ + 1]
                 ELSE files[i]]
  /\ areq' = [areq EXCEPT ![r] = AFinish(areq[r], 200)]
  /\ UNCHANGED <<users, nextFileId, folders, permissions, blobs, nextFolderId, otherReqs>>

\* GET /?folder_id=
FileList(r, u, fo) ==
  /\ AFree(r)
  /\ areq' = [areq EXCEPT ![r] =
                [AFinish(ABlank, 200) EXCEPT
                   !.kind = "file_list", !.user = u, !.parent = fo,
                   !.rows = {i \in DOMAIN files :
                               FileAccess(u, i) # "none" /\ files[i].folder_id = fo}]]
  /\ UNCHANGED <<dbVars, otherReqs>>

\* ------------------------------------------------------------- POST / (folders)
\* The name check, then the parent SELECT when parent_folder_id is given.
FolderCreateStart(r, u, name, parent) ==
  /\ AFree(r)
  /\ nextFolderId <= MaxFolders
  /\ LET me == [ABlank EXCEPT !.kind = "folder_create", !.user = u,
                              !.name = name, !.parent = parent]
     IN areq' = [areq EXCEPT ![r] =
                  IF name = "" THEN AFinish(me, 400)
                  ELSE IF parent = NULL THEN [me EXCEPT !.pc = "fc_existing"]
                  ELSE IF parent \notin DOMAIN folders THEN AFinish(me, 404)
                  ELSE IF folders[parent].user_id # u THEN [me EXCEPT !.pc = "fc_perm"]
                  ELSE [me EXCEPT !.pc = "fc_existing"]]
  /\ UNCHANGED <<dbVars, otherReqs>>

\* SELECT permission_type FROM permissions WHERE folder_id = $1 AND shared_with_user_id = $2
FolderCreatePerm(r) ==
  /\ areq[r].pc = "fc_perm"
  /\ areq' = [areq EXCEPT ![r] =
                IF GrantOf(areq[r].parent, areq[r].user) \in {"create", "edit"}
                THEN [areq[r] EXCEPT !.pc = "fc_existing"]
                ELSE AFinish(areq[r], 403)]
  /\ UNCHANGED <<dbVars, otherReqs>>

\* SELECT id FROM folders WHERE name = $1 AND user_id = $2 AND parent_folder_id = $3:
\* with $3 NULL the comparison is never true.
ExistingFolder(u, name, parent) ==
  {f \in DOMAIN folders :
     /\ folders[f].name = name
     /\ folders[f].user_id = u
     /\ parent # NULL
     /\ folders[f].parent_folder_id = parent}

FolderCreateExisting(r) ==
  /\ areq[r].pc = "fc_existing"
  /\ areq' = [areq EXCEPT ![r] =
                IF ExistingFolder(areq[r].user, areq[r].name, areq[r].parent) # {}
                THEN AFinish(areq[r], 400)
                ELSE [areq[r] EXCEPT !.pc = "fc_insert"]]
  /\ UNCHANGED <<dbVars, otherReqs>>

\* INSERT INTO folders (user_id, name, parent_folder_id): the foreign key
\* rejects a parent that is gone by now.
FolderCreateInsert(r) ==
  /\ areq[r].pc = "fc_insert"
  /\ IF areq[r].parent # NULL /\ areq[r].parent \notin DOMAIN folders
     THEN /\ areq' = [areq EXCEPT ![r] = AFinish(areq[r], 500)]
          /\ UNCHANGED <<folders, nextFolderId>>
     ELSE /\ folders' = [i \in DOMAIN folders \cup {nextFolderId} |->
                           IF i = nextFolderId
                           THEN [user_id |-> areq[r].user,
                                 parent_folder_id |-> areq[r].parent,
                                 name |-> areq[r].name]
                           ELSE folders[i]]
          /\ nextFolderId' = nextFolderId + 1
          /\ areq' = [areq EXCEPT ![r] =
                        [AFinish(areq[r], 201) EXCEPT !.target = nextFolderId]]
  /\ UNCHANGED <<users, files, nextFileId, permissions, blobs, otherReqs>>

\* ------------------------------------------------------------- PUT /:folderId
CanRename(level) == level \in {"owner", "edit"}

FolderRenameStart(r, u, fo, name) ==
  /\ AFree(r)
  /\ LET level == FolderAccess(u, fo)
         me == [ABlank EXCEPT !.kind = "folder_rename", !.user = u,
                              !.target = fo, !.name = name]
     IN areq' = [areq EXCEPT ![r] =
                  IF name = "" THEN AFinish(me, 400)
                  ELSE IF level = "none" THEN AFinish(me, 404)
                  ELSE IF ~CanRename(level) THEN AFinish(me, 403)
                  ELSE [me EXCEPT !.pc = "fr_update", !.access = level]]
  /\ UNCHANGED <<dbVars, otherReqs>>

\* UPDATE folders SET name = $1 WHERE id = $2
FolderRenameUpdate(r) ==
  /\ areq[r].pc = "fr_update"
  /\ folders' = [i \in DOMAIN folders |->
                   IF i = areq[r].target
                   THEN [folders[i] EXCEPT !.name = areq[r].name]
                   ELSE folders[i]]
  /\ areq' = [areq EXCEPT ![r] = AFinish(areq[r], 200)]
  /\ UNCHANGED <<users, files, nextFileId, permissions, blobs, nextFolderId, otherReqs>>

\* ---------------------------------------------------------- DELETE /:folderId
FolderDeleteStart(r, u, fo) ==
  /\ AFree(r)
  /\ LET level == FolderAccess(u, fo)
         me == [ABlank EXCEPT !.kind = "folder_delete", !.user = u, !.target = fo]
     IN areq' = [areq EXCEPT ![r] =
                  IF level = "none" THEN AFinish(me, 404)
                  ELSE IF level # "owner" THEN AFinish(me, 403)
                  ELSE [me EXCEPT !.pc = "fd_subcount", !.access = level]]
  /\ UNCHANGED <<dbVars, otherReqs>>

\* SELECT COUNT(*) FROM folders WHERE parent_folder_id = $1
FolderDeleteSubCount(r) ==
  /\ areq[r].pc = "fd_subcount"
  /\ areq' = [areq EXCEPT ![r] =
                [areq[r] EXCEPT !.pc = "fd_filecount",
                                !.subfolder_count = Cardinality(SubfoldersOf(areq[r].target))]]
  /\ UNCHANGED <<dbVars, otherReqs>>

\* Faulty variant, to show the properties tell it apart: the file count is
\* left out of the test.
NonEmptySubfoldersOnly(subfolderCount, fileCount) == subfolderCount > 0

\* parseInt(subfolderCount.rows[0].count) > 0 || parseInt(fileCount.rows[0].count) > 0
NonEmpty(subfolderCount, fileCount) == subfolderCount > 0 \/ fileCount > 0

\* SELECT COUNT(*) FROM files WHERE folder_id = $1, then the emptiness test.
FolderDeleteFileCount(r) ==
  /\ areq[r].pc = "fd_filecount"
  /\ LET n == Cardinality(FilesIn(areq[r].target))
         me == [areq[r] EXCEPT !.file_count = n]
     IN areq' = [areq EXCEPT ![r] =
                  IF NonEmpty(me.subfolder_count, n) THEN AFinish(me, 400)
                  ELSE [me EXCEPT !.pc = "fd_perms"]]
  /\ UNCHANGED <<dbVars, otherReqs>>

\* DELETE FROM permissions WHERE folder_id = $1
FolderDeletePerms(r) ==
  /\ areq[r].pc = "fd_perms"
  /\ permissions' = {p \in permissions : p.folder_id # areq[r].target}
  /\ areq' = [areq EXCEPT ![r] = [areq[r] EXCEPT !.pc = "fd_folder"]]
  /\ UNCHANGED <<users, files, nextFileId, folders, blobs, nextFolderId, otherReqs>>

\* DELETE FROM folders WHERE id = $1: sub-folders, their grants and the files of
\* all of them go with it (ON DELETE CASCADE); storage_used and the blobs stay.
FolderDeleteFolder(r) ==
  /\ areq[r].pc = "fd_folder"
  /\ LET gone == IF areq[r].target \in DOMAIN folders
                 THEN Subtree({areq[r].target}, MaxFolders) ELSE {}
     IN /\ folders' = [i \in DOMAIN folders \ gone |-> folders[i]]
        /\ permissions' = {p \in permissions : p.folder_id \notin gone}
        /\ files' = [i \in {j \in DOMAIN files : files[j].folder_id \notin gone} |-> files[i]]
  /\ areq' = [areq EXCEPT ![r] = AFinish(areq[r], 200)]
  /\ UNCHANGED <<users, nextFileId, blobs, nextFolderId, otherReqs>>

\* --------------------------------------------- POST /share/folder/:folderId
PermissionTypes == {"view", "create", "edit"}

\* The body checks, the folder SELECT and the owner test.
GrantStart(r, u, fo, target, ptype) ==
  /\ AFree(r)
  /\ LET me == [ABlank EXCEPT !.kind = "grant", !.user = u, !.target = fo,
                              !.parent = target, !.access = ptype]
     IN areq' = [areq EXCEPT ![r] =
                  IF ptype \notin PermissionTypes THEN AFinish(me, 400)
                  ELSE IF fo \notin DOMAIN folders THEN AFinish(me, 404)
                  ELSE IF folders[fo].user_id # u THEN AFinish(me, 403)
                  ELSE [me EXCEPT !.pc = "gr_user"]]
  /\ UNCHANGED <<dbVars, otherReqs>>

\* SELECT id FROM users WHERE email = $1
GrantUser(r) ==
  /\ areq[r].pc = "gr_user"
  /\ areq' = [areq EXCEPT ![r] =
                IF areq[r].parent \notin Users THEN AFinish(areq[r], 404)
                ELSE IF areq[r].parent = areq[r].user THEN AFinish(areq[r], 400)
                ELSE [areq[r] EXCEPT !.pc = "gr_existing"]]
  /\ UNCHANGED <<dbVars, otherReqs>>

\* SELECT * FROM permissions WHERE folder_id = $1 AND shared_with_user_id = $2
GrantExisting(r) ==
  /\ areq[r].pc = "gr_existing"
  /\ areq' = [areq EXCEPT ![r] =
                [areq[r] EXCEPT !.pc = IF GrantOf(areq[r].target, areq[r].parent) # "none"
                                       THEN "gr_update" ELSE "gr_insert"]]
  /\ UNCHANGED <<dbVars, otherReqs>>

\* UPDATE permissions SET permission_type = $1 WHERE folder_id = $3 AND shared_with_user_id = $4
GrantUpdate(r) ==
  /\ areq[r].pc = "gr_update"
  /\ permissions' =
       {IF p.folder_id = areq[r].target /\ p.shared_with_user_id = areq[r].parent
        THEN [p EXCEPT !.permission_type = areq[r].access] ELSE p : p \in permissions}
  /\ areq' = [areq EXCEPT ![r] = AFinish(areq[r], 200)]
  /\ UNCHANGED <<users, files, nextFileId, folders, blobs, nextFolderId, otherReqs>>

\* INSERT INTO permissions: the folder foreign key and UNIQUE(folder_id,
\* shared_with_user_id) reject a folder that is gone and a second row.
GrantInsert(r) ==
  /\ areq[r].pc = "gr_insert"
  /\ IF \/ areq[r].target \notin DOMAIN folders
        \/ GrantOf(areq[r].target, areq[r].parent) # "none"
     THEN /\ areq' = [areq EXCEPT ![r] = AFinish(areq[r], 500)]
          /\ UNCHANGED permissions
     ELSE /\ permissions' = permissions \cup
               {[folder_id |-> areq[r].target, shared_with_user_id |-> areq[r].parent,
                 permission_type |-> areq[r].access]}
          /\ areq' = [areq EXCEPT ![r] = AFinish(areq[r], 201)]
  /\ UNCHANGED <<users, files, nextFileId, folders, blobs, nextFolderId, otherReqs>>

\* ------------------------------- DELETE /share/folder/:folderId/user/:userId
UngrantStart(r, u, fo, target) ==
  /\ AFree(r)
  /\ LET me == [ABlank EXCEPT !.kind = "ungrant", !.user = u, !.target = fo,
                              !.parent = target]
     IN areq' = [areq EXCEPT ![r] =
                  IF fo \notin DOMAIN folders THEN AFinish(me, 404)
                  ELSE IF folders[fo].user_id # u THEN AFinish(me, 403)
                  ELSE [me EXCEPT !.pc = "ug_delete"]]
  /\ UNCHANGED <<dbVars, otherReqs>>

\* DELETE FROM permissions WHERE folder_id = $1 AND shared_with_user_id = $2
UngrantDelete(r) ==
  /\ areq[r].pc = "ug_delete"
  /\ LET hit == {p \in permissions : p.folder_id = areq[r].target
                                      /\ p.shared_with_user_id = areq[r].parent}
     IN /\ permissions' = permissions \ hit
        /\ areq' = [areq EXCEPT ![r] = AFinish(areq[r], IF hit = {} THEN 404 ELSE 200)]
  /\ UNCHANGED <<users, files, nextFileId, folders, blobs, nextFolderId, otherReqs>>


\* ==================================================================
\* Proxied delivery: what the six delivery routes do once the file has been
\* looked up, from the request to the object store until both connections of
\* the delivery are finished.
MaxDeliveries == 2

DReq == 1..MaxDeliveries

DeliveryRoutes ==
  {"download", "view", "thumbnail", "public", "public_view", "public_thumbnail"}

\* The status of the object store's answer: the blob, or an error body.
UpstreamStatuses == {200, 404}

\* httpModule.get(url, {timeout}) with proxyReq.on('timeout') and setTimeout;
\* /view and the two thumbnail routes call protocol.request(url, callback).
HasUpstreamTimeout(route) == route \in {"download", "public", "public_view"}

\* req.on('close') and req.on('aborted'), registered in the response callback.
HandlesDisconnect(route) == route \in {"download", "public", "public_view"}

\* proxyRes.on('error')
HandlesStreamError(route) == route # "view"

\* res.on('error'), which destroys proxyRes.
HandlesWriteError(route) == route \in {"download", "public", "public_view"}

\* server.js: req.setTimeout(120000) and res.setTimeout(120000) when the path
\* includes '/download', '/view' or '/public'; no 'timeout' listener is added,
\* so the server destroys the socket when the timeout passes.
HasIdleTimeout(route) == route # "thumbnail"

DBlank ==
  [route |-> "", file |-> NULL, mime |-> "", upstream |-> "none",
   upstreamStatus |-> 0, client |-> "open", listening |-> FALSE,
   headersSent |-> FALSE, status |-> 0, responses |-> 0, body |-> "none",
   ended |-> FALSE, disposition |-> "none"]

\* The lowest slot that has had no delivery takes the next one.
DFree(d) == dreq[d].route = "" /\ \A q \in DReq : q < d => dreq[q].route # ""

\* The Content-Disposition set before the upstream request is made.
DispositionAtStart(route, mime) ==
  CASE route = "download" -> "attachment"
    [] route = "public" -> IF InlineType(mime) THEN "inline" ELSE "attachment"
    [] route = "public_view" -> "inline"
    [] OTHER -> "none"

\* What the handler has checked before it reaches the upstream request.
Deliverable(route, row) ==
  /\ route = "view" => IsSupported(row.mime_type)
  /\ route = "public_view" => Viewable(row.mime_type)
  /\ route \in {"thumbnail", "public_thumbnail"} => row.has_thumbnail
  /\ route \in {"public", "public_view", "public_thumbnail"} => row.is_public

\* getDownloadUrl, the headers set ahead of the transfer, and the request to
\* the object store.
DeliveryStart(d, route, f) ==
  /\ DFree(d)
  /\ f \in DOMAIN files
  /\ Deliverable(route, files[f])
  /\ dreq' = [dreq EXCEPT ![d] =
               [DBlank EXCEPT !.route = route, !.file = f,
                              !.mime = files[f].mime_type,
                              !.upstream = "pending",
                              !.disposition = DispositionAtStart(route, files[f].mime_type)]]
  /\ UNCHANGED <<dbVars, req, shareVars, couponVars, areq, mreq, dispatched>>

\* The response callback: the disconnect handlers of the routes that have them,
\* the headers /view sets here, and proxyRes.pipe(res). The status of the
\* upstream answer is not looked at.
UpstreamResponse(d, st) ==
  /\ dreq[d].upstream = "pending"
  /\ dreq' = [dreq EXCEPT ![d] =
               [dreq[d] EXCEPT
                  !.upstream = "open", !.upstreamStatus = st,
                  !.listening = HandlesDisconnect(dreq[d].route),
                  !.disposition = IF dreq[d].route = "view"
                                  THEN IF InlineType(dreq[d].mime) THEN "inline" ELSE "none"
                                  ELSE @]]
  /\ UNCHANGED <<dbVars, req, shareVars, couponVars, areq, mreq, dispatched>>

\* A write of the pipe: the first one sends the status line, which is 200 as no
\* handler sets it, and the headers set so far.
Forward(me) ==
  [me EXCEPT !.headersSent = TRUE,
             !.status = IF me.headersSent THEN @ ELSE 200,
             !.responses = IF me.headersSent THEN @ ELSE @ + 1,
             !.body = IF me.upstreamStatus = 200 THEN "file" ELSE "upstream_error"]

\* res.status(st).json(...) under its guard !res.headersSent: the status line,
\* the JSON body and the end of the response.
ErrorResponse(me, st) ==
  IF me.headersSent THEN me
  ELSE [me EXCEPT !.headersSent = TRUE, !.status = st, !.responses = @ + 1,
                  !.body = "error", !.ended = TRUE]

\* A chunk of the upstream body. The pipe writes it downstream; the chunks
\* after the first change nothing here. When the downstream socket is gone the
\* write fails: res emits 'error' and the routes that listen for it destroy
\* proxyRes, or the write is refused and the pipe stops reading.
UpstreamData(d) ==
  /\ dreq[d].upstream = "open"
  /\ \/ /\ dreq[d].client = "open"
        /\ ~dreq[d].headersSent
        /\ dreq' = [dreq EXCEPT ![d] = Forward(dreq[d])]
     \/ /\ dreq[d].client # "open"
        /\ \E u \in {"paused"} \cup (IF HandlesWriteError(dreq[d].route) THEN {"aborted"} ELSE {}) :
             dreq' = [dreq EXCEPT ![d] = [dreq[d] EXCEPT !.upstream = u]]
  /\ UNCHANGED <<dbVars, req, shareVars, couponVars, areq, mreq, dispatched>>

\* 'end' of proxyRes: the pipe ends the response.
UpstreamEnd(d) ==
  /\ dreq[d].upstream = "open"
  /\ dreq' = [dreq EXCEPT ![d] =
               IF dreq[d].client = "open"
               THEN [Forward(dreq[d]) EXCEPT !.upstream = "ended", !.ended = TRUE]
               ELSE [dreq[d] EXCEPT !.upstream = "ended"]]
  /\ UNCHANGED <<dbVars, req, shareVars, couponVars, areq, mreq, dispatched>>

\* The upstream connection fails. Before the answer proxyReq emits 'error',
\* which every route handles; after it proxyRes emits 'error', which /view
\* does not handle. A pipe does not end its destination when its source fails.
UpstreamError(d) ==
  /\ dreq[d].upstream \in {"pending", "open", "paused"}
  /\ dreq' = [dreq EXCEPT ![d] =
               [(IF dreq[d].upstream = "pending" \/ HandlesStreamError(dreq[d].route)
                 THEN ErrorResponse(dreq[d], 500)
                 ELSE dreq[d]) EXCEPT !.upstream = "failed"]]
  /\ UNCHANGED <<dbVars, req, shareVars, couponVars, areq, mreq, dispatched>>

\* proxyReq.on('timeout'): proxyReq.destroy(), then 504 unless the headers have
\* been sent; the 'error' that the destroy raises finds the headers sent.
UpstreamTimeout(d) ==
  /\ HasUpstreamTimeout(dreq[d].route)
  /\ dreq[d].upstream \in {"pending", "open", "paused"}
  /\ dreq' = [dreq EXCEPT ![d] =
               [ErrorResponse(dreq[d], 504) EXCEPT !.upstream = "timedout"]]
  /\ UNCHANGED <<dbVars, req, shareVars, couponVars, areq, mreq, dispatched>>

\* The downstream socket closes: the 'close' and 'aborted' handlers, where
\* they have been registered, destroy proxyRes; elsewhere the pipe sees its
\* destination close and stops reading the source, which stays open.
Disconnect(me, how) ==
  [me EXCEPT !.client = how,
             !.upstream = IF me.listening /\ @ \in {"open", "paused"} THEN "aborted"
                          ELSE IF @ = "open" THEN "paused"
                          ELSE @]

\* The client disconnects before the response has ended.
ClientClose(d) ==
  /\ dreq[d].route # ""
  /\ dreq[d].client = "open"
  /\ ~dreq[d].ended
  /\ dreq' = [dreq EXCEPT ![d] = Disconnect(dreq[d], "closed")]
  /\ UNCHANGED <<dbVars, req, shareVars, couponVars, areq, mreq, dispatched>>

\* The idle timeout of server.js passes on the downstream socket and the
\* server destroys it.
IdleTimeout(d) ==
  /\ dreq[d].route # ""
  /\ HasIdleTimeout(dreq[d].route)
  /\ dreq[d].client = "open"
  /\ ~dreq[d].ended
  /\ dreq' = [dreq EXCEPT ![d] = Disconnect(dreq[d], "timedout")]
  /\ UNCHANGED <<dbVars, req, shareVars, couponVars, areq, mreq, dispatched>>

\* ---------------------------------- POST /forgot-password and the reset email
MaxMails == 1
MReq == 1..MaxMails

maxRetries == 3
retryDelay == 5000

\* error.code of a failed sendMail: the three the retry condition names, two
\* that nodemailer gives to a refused login and a refused recipient, and an
\* error that has a message only.
TransientCodes == {"ETIMEDOUT", "ENOTFOUND", "ECONNREFUSED"}
ErrorCodes == TransientCodes \cup {"EAUTH", "EENVELOPE", "undefined"}

MBlank == [pc |-> "idle", user |-> 0, retryCount |-> 0, errors |-> <<>>,
           delays |-> <<>>, result |-> "none", status |-> 0]

\* Faulty variant, to show the properties tell it apart: the error code is not looked at.
ShouldRetryAnyError(retryCount, code) == retryCount < maxRetries

\* The condition of the catch block under which the call waits and calls itself.
ShouldRetry(retryCount, code) == retryCount < maxRetries /\ code \in TransientCodes

\* The handler up to the call of sendPasswordResetEmail: an address without an
\* account is answered at once, without an email.
ForgotStart(m, u) ==
  /\ mreq[m].pc = "idle"
  /\ mreq' = [mreq EXCEPT ![m] =
               IF u \in DOMAIN users
               THEN [MBlank EXCEPT !.pc = "sending", !.user = u]
               ELSE [MBlank EXCEPT !.pc = "done", !.status = 200]]
  /\ UNCHANGED <<dbVars, req, shareVars, couponVars, areq, dreq, dispatched>>

\* transporter.sendMail resolves: the result is returned through every level
\* of the recursion and the handler answers.
SendMailOk(m) ==
  /\ mreq[m].pc = "sending"
  /\ mreq' = [mreq EXCEPT ![m] = [@ EXCEPT !.pc = "done", !.result = "sent", !.status = 200]]
  /\ UNCHANGED <<dbVars, req, shareVars, couponVars, areq, dreq, dispatched>>

\* transporter.sendMail rejects: the catch block either starts the timer or
\* throws, and what it throws reaches the handler's catch block.
SendMailFail(m, code) ==
  /\ mreq[m].pc = "sending"
  /\ mreq' = [mreq EXCEPT ![m] =
               IF ShouldRetry(mreq[m].retryCount, code)
               THEN [@ EXCEPT !.pc = "waiting", !.errors = Append(@, code)]
               ELSE [@ EXCEPT !.pc = "done", !.errors = Append(@, code),
                              !.result = "error", !.status = 500]]
  /\ UNCHANGED <<dbVars, req, shareVars, couponVars, areq, dreq, dispatched>>

\* The setTimeout of the retry fires: the call with retryCount + 1.
RetryTimer(m) ==
  /\ mreq[m].pc = "waiting"
  /\ mreq' = [mreq EXCEPT ![m] =
               [@ EXCEPT !.pc = "sending", !.retryCount = @ + 1,
                         !.delays = Append(@, retryDelay)]]
  /\ UNCHANGED <<dbVars, req, shareVars, couponVars, areq, dreq, dispatched>>

\* The slot of an answered request is used again.
MailForget(m) ==
  /\ mreq[m].pc = "done"
  /\ mreq' = [mreq EXCEPT ![m] = MBlank]
  /\ UNCHANGED <<dbVars, req, shareVars, couponVars, areq, dreq, dispatched>>

\* ---------------------------------------------- the routers' route tables
\* A path is the sequence of its segments below the router's mount point; a
\* segment of a route's pattern is a literal or a parameter.
Params == {":fileId", ":folderId", ":shareToken"}

Route(method, pattern, handler) ==
  [method |-> method, pattern |-> pattern, handler |-> handler]

\* The routes of the files router and of the folders router, in the order of
\* their registration.
FileRouterTable ==
  << Route("POST", <<"upload", "multiple">>, "files.uploadMultiple"),
     Route("POST", <<"upload">>, "files.upload"),
     Route("GET", <<>>, "files.list"),
     Route("GET", <<":fileId">>, "files.get"),
     Route("DELETE", <<":fileId">>, "files.delete"),
     Route("DELETE", <<"bulk">>, "files.bulkDelete"),
     Route("GET", <<":fileId", "download">>, "files.download"),
     Route("GET", <<":fileId", "thumbnail">>, "files.thumbnail"),
     Route("GET", <<":fileId", "view">>, "files.view"),
     Route("POST", <<":fileId", "share">>, "files.share"),
     Route("GET", <<"public", ":shareToken">>, "files.publicDownload"),
     Route("GET", <<"public", ":shareToken", "view">>, "files.publicView"),
     Route("GET", <<"public", ":shareToken", "thumbnail">>, "files.publicThumbnail"),
     Route("GET", <<"public", ":shareToken", "info">>, "files.publicInfo"),
     Route("DELETE", <<":fileId", "share">>, "files.revoke") >>

FolderRouterTable ==
  << Route("POST", <<>>, "folders.create"),
     Route("GET", <<>>, "folders.list"),
     Route("GET", <<":folderId">>, "folders.get"),
     Route("PUT", <<":folderId">>, "folders.rename"),
     Route("DELETE", <<":folderId">>, "folders.delete"),
     Route("DELETE", <<"bulk">>, "folders.bulkDelete"),
     Route("DELETE", <<"bulk", "mixed">>, "folders.bulkMixed") >>

RouterTable(router) == IF router = "files" THEN FileRouterTable ELSE FolderRouterTable

\* A parameter matches any one segment, a literal matches itself.
Matches(rt, method, path) ==
  /\ rt.method = method
  /\ Len(rt.pattern) = Len(path)
  /\ \A i \in 1..Len(path) : rt.pattern[i] \in Params \/ rt.pattern[i] = path[i]

\* The handler of the first route of the table that matches; the application's
\* catch-all answers when none does.
FirstMatch(table, method, path) ==
  LET hits == {i \in 1..Len(table) : Matches(table[i], method, path)}
  IN IF hits = {} THEN "notFound"
     ELSE table[CHOOSE i \in hits : \A j \in hits : i <= j].handler

Methods == {"GET", "POST", "PUT", "DELETE"}
Segments == {"1", "bulk", "mixed", "public", "share", "view"}
MaxSegments == 2
Paths == UNION {[1..n -> Segments] : n \in 0..MaxSegments}

NoDispatch == [router |-> "", method |-> "", path |-> <<>>, handler |-> ""]

\* A request arrives at a router and is handed to a handler.
Dispatch(router, method, path) ==
  /\ dispatched' = [router |-> router, method |-> method, path |-> path,
                    handler |-> FirstMatch(RouterTable(router), method, path)]
  /\ UNCHANGED <<dbVars, req, shareVars, couponVars, areq, dreq, mreq>>

\* ------------------------------------------------------- specification
Grants == {"view", "create", "edit"}

\* The blob of a file that was stored before the requests of the model.
OldBlob(i) == <<0, i>>

\* Two registered users with the same quota; user 1 owns folder 1, has shared it
\* with user 2 at one of the three levels and has stored one file in it.
InitStorage(G) ==
  /\ users = [u \in Users |-> [storage_quota |-> InitQuota,
                                storage_used |-> IF u = 1 THEN 1 ELSE 0]]
  /\ nextFileId = 2
  /\ folders = [i \in {1} |-> [user_id |-> 1, parent_folder_id |-> NULL, name |-> "a"]]
  /\ nextFolderId = 2
  /\ \E g \in G :
       permissions = IF g = "none" THEN {}
                     ELSE {[folder_id |-> 1, shared_with_user_id |-> 2, permission_type |-> g]}
  /\ areq = [r \in AReq |-> ABlank]
  /\ dreq = [d \in DReq |-> DBlank]
  /\ mreq = [m \in MReq |-> MBlank]
  /\ dispatched = NoDispatch
  /\ blobs = {OldBlob(1)}
  /\ req = [r \in Req |-> Blank]
  /\ isConnected = TRUE
  /\ now = 0
  /\ sreq = [r \in SReq |-> SBlank]
  /\ creq = [r \in CReq |-> CBlank]
  /\ conns = [c \in Conns |-> NewConn]
  /\ idle = <<>>
  /\ redemptions = {}

Init ==
  /\ InitStorage(Grants)
  /\ files = [i \in {1} |-> NewFile(1, 1, OldBlob(1), 1)]
  /\ cache = [t \in Tokens |-> NoEntry]
  /\ nextToken = 1
  /\ coupon = [current_uses |-> 0, max_uses |-> MaxUses]

Next ==
  \E r \in Req :
    \/ \E u \in Users, fo \in {NULL} \cup FolderIds, s \in Sizes : UploadStart(r, u, fo, s)
    \/ UploadQuota(r) \/ UploadPut(r) \/ UploadInsert(r) \/ UploadCommit(r)
    \/ \E u \in Users, fo \in {NULL} \cup FolderIds, b \in Batches : MultiStart(r, u, fo, b)
    \/ MultiQuota(r) \/ MultiPut(r) \/ MultiInsert(r) \/ MultiCommit(r)
    \/ \E u \in Users, f \in FileIds : DeleteStart(r, u, f)
    \/ DeleteBlob(r) \/ DeleteRecord(r) \/ DeleteCommit(r)
    \/ \E u \in Users, ids \in SUBSET FileIds : BulkStart(r, u, ids)
    \/ BulkBlob(r) \/ BulkRecord(r) \/ BulkCommit(r)
    \/ \E u \in Users, ids \in SUBSET FileIds, fids \in SUBSET FolderIds :
         MixedStart(r, u, ids, fids)
    \/ MixedFolders(r) \/ MixedSubCount(r) \/ MixedFileCount(r)
    \/ MixedDelPerm(r) \/ MixedDelFolder(r)
    \/ \E u \in Users : StatsStart(r, u)
    \/ StatsSum(r) \/ StatsSync(r)

Spec == Init /\ [][Next]_vars

\* The runs in which every reconcile runs alone: a stats request starts only
\* when no other request is in flight, and nothing else steps until it is answered.
StatsInFlight == {r \in Req : req[r].kind = "stats" /\ InFlight(r)}

ReconcileAlone ==
  /\ \A r \in StatsInFlight : \A q \in Req \ {r} : req'[q] = req[q]
  /\ \A r \in Req : (req'[r].kind = "stats" /\ req'[r].pc = "st_sum")
                        => \A q \in Req \ {r} : ~InFlight(q)

\* The statistics are read after the other requests have been answered: here a
\* stats request may take the slot of an answered request.
StatsAfter(r, u) ==
  /\ req[r].pc = "done"
  /\ req' = [req EXCEPT ![r] =
               [Blank EXCEPT !.kind = "stats", !.user = u,
                             !.rd_used = users[u].storage_used,
                             !.rd_quota = users[u].storage_quota,
                             !.pc = "st_sum"]]
  /\ UNCHANGED <<users, files, nextFileId, folders, permissions, blobs, shareVars, couponVars, accessVars, dreq, mreq, dispatched>>

NextSequentialStats ==
  /\ Next \/ \E r \in Req, u \in Users : StatsAfter(r, u)
  /\ ReconcileAlone

SpecSequentialStats == Init /\ [][NextSequentialStats]_vars

\* ------------------------------------------------------ the quota ledger
\* The share subsystem: shares, revocations, public reads and one delete of a file.
ShareCreateStep(r) ==
  \/ \E u \in Users, f \in FileIds, h \in ExpiresIn : ShareStart(r, u, f, h)
  \/ ShareUpdate(r) \/ ShareCache(r)

RevokeStep(r) ==
  \/ \E u \in Users, f \in FileIds : RevokeStart(r, u, f)
  \/ RevokeUpdate(r) \/ RevokeDel(r)

PublicStep(r) ==
  \/ \E route \in Routes, t \in Tokens : PublicGet(r, route, t)
  \/ PublicDb(r) \/ PublicRecache(r) \/ PublicCount(r) \/ PublicName(r)

FileDeleteStep(r) ==
  \/ \E u \in Users, f \in FileIds : DeleteStart(r, u, f)
  \/ DeleteBlob(r) \/ DeleteRecord(r) \/ DeleteCommit(r)

NextShare ==
  \/ \E r \in SReq : ShareCreateStep(r) \/ RevokeStep(r) \/ PublicStep(r)
  \/ FileDeleteStep(1)

\* Shares and public reads while the clock runs.
NextExpiry ==
  \/ \E r \in SReq : ShareCreateStep(r) \/ PublicStep(r)
  \/ Tick

\* Revocations and public reads while the Redis connection comes and goes.
NextOutage ==
  \/ \E r \in SReq : RevokeStep(r) \/ PublicStep(r)
  \/ RedisError \/ RedisConnect

\* The stored file is an image with a thumbnail that has been shared under
\* token 1; its cache entry is still there or is gone.
SharedImage ==
  [NewFile(1, 1, OldBlob(1), 1) EXCEPT !.mime_type = "image/png",
                                       !.has_thumbnail = TRUE,
                                       !.public_share_token = 1,
                                       !.is_public = TRUE]

\* The level at which folder 1 is shared with user 2 in the share subsystem.
ShareGrants == {"edit"}

InitShare ==
  /\ InitStorage(ShareGrants)
  /\ files = [i \in {1} |-> SharedImage]
  /\ nextToken = 2
  /\ \E e \in {NoEntry, [data |-> ShareData(1, SharedImage), expireAt |-> SecondsPerHour]} :
       cache = [t \in Tokens |-> IF t = 1 THEN e ELSE NoEntry]
  /\ coupon = [current_uses |-> 0, max_uses |-> MaxUses]

SpecShare == InitShare /\ [][NextShare]_vars

SpecExpiry == InitShare /\ [][NextExpiry]_vars

SpecOutage == InitShare /\ [][NextOutage]_vars

\* Redemptions of the coupon.
NextCoupon ==
  \E r \in CReq :
    \/ \E u \in Users, code \in {NULL, 1} : RedeemStart(r, u, code)
    \/ PoolAcquire(r)
    \/ RedeemBegin(r) \/ RedeemSelectCoupon(r) \/ RedeemCheck(r)
    \/ RedeemUpdateQuota(r) \/ RedeemInsert(r) \/ RedeemUpdateUses(r)
    \/ RedeemCommit(r) \/ RedeemRollback(r)

\* One active coupon that has not been used, with max_uses of one or more.
InitCoupon ==
  /\ InitStorage(ShareGrants)
  /\ files = [i \in {1} |-> NewFile(1, 1, OldBlob(1), 1)]
  /\ cache = [t \in Tokens |-> NoEntry]
  /\ nextToken = 1
  /\ \E m \in 1..MaxUses : coupon = [current_uses |-> 0, max_uses |-> m]

SpecCoupon == InitCoupon /\ [][NextCoupon]_vars

\* The folders router, the folder grants and the file reads, one request at a
\* time: a request starts only when every earlier one has been answered.
Quiet ==
  /\ \A r \in Req : ~InFlight(r)
  /\ \A r \in AReq : areq[r].pc \in {"idle", "done"}
  /\ \A r \in SReq : sreq[r].pc \in {"idle", "done"}

\* The ids a request may name: every id without a row is answered alike, so
\* one of them stands for all.
AnyFolder == DOMAIN folders \cup {NoSuchId}

AnyFile == DOMAIN files \cup {NoSuchId}

ReadStep(r) ==
  \/ \E u \in Users, fo \in AnyFolder : FolderGet(r, u, fo)
  \/ \E u \in Users, parent \in {NULL} \cup DOMAIN folders : FolderList(r, u, parent)
  \/ \E u \in Users, route \in FileRoutes, f \in AnyFile : FileRead(r, u, route, f)
  \/ \E u \in Users, fo \in {NULL} \cup DOMAIN folders : FileList(r, u, fo)

FolderStart(r) ==
  \/ \E u \in Users, name \in Names \cup {""}, parent \in {NULL} \cup AnyFolder :
       FolderCreateStart(r, u, name, parent)
  \/ \E u \in Users, fo \in AnyFolder, name \in Names \cup {""} :
       FolderRenameStart(r, u, fo, name)
  \/ \E u \in Users, fo \in AnyFolder : FolderDeleteStart(r, u, fo)

FolderStep(r) ==
  \/ FolderCreatePerm(r) \/ FolderCreateExisting(r) \/ FolderCreateInsert(r)
  \/ FolderRenameUpdate(r)
  \/ FolderDeleteSubCount(r) \/ FolderDeleteFileCount(r)
  \/ FolderDeletePerms(r) \/ FolderDeleteFolder(r)

GrantBegin(r) ==
  \/ \E u \in Users, fo \in AnyFolder, target \in Users, ptype \in PermissionTypes \cup {""} :
       GrantStart(r, u, fo, target, ptype)
  \/ \E u \in Users, fo \in AnyFolder, target \in Users : UngrantStart(r, u, fo, target)

GrantStep(r) ==
  \/ GrantUser(r) \/ GrantExisting(r) \/ GrantUpdate(r) \/ GrantInsert(r)
  \/ UngrantDelete(r)

UploadOne(r) ==
  \E u \in Users, fo \in {NULL} \cup AnyFolder : UploadStart(r, u, fo, 1)

UploadStep(r) == UploadQuota(r) \/ UploadPut(r) \/ UploadInsert(r) \/ UploadCommit(r)

\* The stored file is an image with a thumbnail.
StoredImage ==
  [NewFile(1, 1, OldBlob(1), 1) EXCEPT !.mime_type = "image/png",
                                       !.has_thumbnail = TRUE]

\* Folder 1 is shared with user 2 at one of the three levels, or not at all.
AccessGrants == Grants \cup {"none"}

InitAccess ==
  /\ InitStorage(AccessGrants)
  /\ files = [i \in {1} |-> StoredImage]
  /\ cache = [t \in Tokens |-> NoEntry]
  /\ nextToken = 1
  /\ coupon = [current_uses |-> 0, max_uses |-> MaxUses]

\* The folders and their grants: creating folders, granting and revoking, and
\* reading folders.
MaxTreeFolders == 2
MaxTreeFiles == 2

NextFolders ==
  \/ /\ Quiet
     /\ \E r \in AReq :
          \/ \E u \in Users, fo \in AnyFolder : FolderGet(r, u, fo)
          \/ \E u \in Users, parent \in {NULL} \cup AllFolderIds : FolderList(r, u, parent)
          \/ /\ nextFolderId <= MaxTreeFolders
             /\ \E u \in Users, name \in Names \cup {""}, parent \in {NULL} \cup AnyFolder :
                  FolderCreateStart(r, u, name, parent)
          \/ GrantBegin(r)
  \/ \E r \in AReq :
       \/ FolderCreatePerm(r) \/ FolderCreateExisting(r) \/ FolderCreateInsert(r)
       \/ GrantStep(r)

SpecFolders == InitAccess /\ [][NextFolders]_vars

\* Uploads into the shared folder and at the root, and reads of files and folders.
NextGranteeUpload ==
  \/ /\ Quiet
     /\ \/ \E r \in Req : UploadOne(r)
        \/ \E r \in AReq :
             \/ \E u \in Users, route \in FileRoutes, f \in AnyFile : FileRead(r, u, route, f)
             \/ \E u \in Users, fo \in AnyFolder : FolderGet(r, u, fo)
  \/ \E r \in Req : UploadStep(r)
  \/ \E r \in AReq : FileDownloadCount(r)

SpecGranteeUpload == InitAccess /\ [][NextGranteeUpload]_vars

\* Sub-folders of the folders there are, uploads into them, and what
\* GET /:folderId reports of them.
NextFolderCount ==
  \/ /\ Quiet
     /\ \/ \E r \in Req, u \in Users, fo \in DOMAIN folders : UploadStart(r, u, fo, 1)
        \/ \E r \in AReq :
             \/ \E u \in Users, name \in Names, parent \in DOMAIN folders :
                  FolderCreateStart(r, u, name, parent)
             \/ \E u \in Users, fo \in DOMAIN folders : FolderGet(r, u, fo)
  \/ \E r \in Req : UploadStep(r)
  \/ \E r \in AReq : FolderCreatePerm(r) \/ FolderCreateExisting(r) \/ FolderCreateInsert(r)

SpecFolderCount == InitAccess /\ [][NextFolderCount]_vars

\* Once a response has been sent the handler's locals are gone.
Forget ==
  /\ Quiet
  /\ \/ \E r \in Req : req[r].pc = "done"
     \/ \E r \in AReq : areq[r].pc = "done"
     \/ \E r \in SReq : sreq[r].pc = "done"
  /\ req' = [r \in Req |-> Blank]
  /\ areq' = [r \in AReq |-> ABlank]
  /\ sreq' = [r \in SReq |-> SBlank]
  /\ UNCHANGED <<dbVars, cache, isConnected, now, nextToken, couponVars, dreq, mreq, dispatched>>

NoneKept ==
  /\ \A r \in Req : req[r].pc = "idle"
  /\ \A r \in AReq : areq[r].pc = "idle"
  /\ \A r \in SReq : sreq[r].pc = "idle"

\* The operations a grant level is required for: uploads, sub-folders, file
\* deletes, renames and public shares, one request at a time.
NextAuthorize ==
  \/ /\ NoneKept
     /\ \/ nextFileId <= MaxTreeFiles /\ \E r \in Req : UploadOne(r)
        \/ \E r \in Req, u \in Users, f \in AnyFile : DeleteStart(r, u, f)
        \/ \E r \in AReq :
             \/ /\ nextFolderId <= MaxTreeFolders
                /\ \E u \in Users, name \in Names, parent \in {NULL} \cup AnyFolder :
                     FolderCreateStart(r, u, name, parent)
             \/ \E u \in Users, fo \in AnyFolder, name \in Names \cup {""} :
                  FolderRenameStart(r, u, fo, name)
        \/ \E r \in SReq, u \in Users, f \in AnyFile : ShareStart(r, u, f, 1)
  \/ \E r \in Req : UploadStep(r) \/ DeleteBlob(r) \/ DeleteRecord(r) \/ DeleteCommit(r)
  \/ \E r \in AReq :
       \/ FolderCreatePerm(r) \/ FolderCreateExisting(r) \/ FolderCreateInsert(r)
       \/ FolderRenameUpdate(r)
  \/ \E r \in SReq : ShareUpdate(r) \/ ShareCache(r)
  \/ Forget

SpecAuthorize == InitAccess /\ [][NextAuthorize]_vars

\* A folder with a sub-folder, a file in each of them and a file at the root,
\* all of user 1; the folder is shared with user 2 at one of the levels or not
\* at all, the sub-folder is not shared.
InitTree ==
  /\ users = [u \in Users |-> [storage_quota |-> InitQuota,
                                storage_used |-> IF u = 1 THEN 3 ELSE 0]]
  /\ folders = [i \in {1, 2} |->
                  [user_id |-> 1, parent_folder_id |-> IF i = 1 THEN NULL ELSE 1,
                   name |-> "a"]]
  /\ nextFolderId = 3
  /\ files = [i \in {1, 2, 3} |->
                [StoredImage EXCEPT !.folder_id = IF i = 3 THEN NULL ELSE i,
                                    !.name = OldBlob(i)]]
  /\ nextFileId = 4
  /\ blobs = {OldBlob(1), OldBlob(2), OldBlob(3)}
  /\ \E g \in AccessGrants :
       permissions = IF g = "none" THEN {}
                     ELSE {[folder_id |-> 1, shared_with_user_id |-> 2, permission_type |-> g]}
  /\ req = [r \in Req |-> Blank]
  /\ areq = [r \in AReq |-> ABlank]
  /\ dreq = [d \in DReq |-> DBlank]
  /\ mreq = [m \in MReq |-> MBlank]
  /\ dispatched = NoDispatch
  /\ sreq = [r \in SReq |-> SBlank]
  /\ creq = [r \in CReq |-> CBlank]
  /\ cache = [t \in Tokens |-> NoEntry]
  /\ nextToken = 1
  /\ isConnected = TRUE
  /\ now = 0
  /\ conns = [c \in Conns |-> NewConn]
  /\ idle = <<>>
  /\ redemptions = {}
  /\ coupon = [current_uses |-> 0, max_uses |-> MaxUses]

\* Grants on the folders of the tree and the requests that read a folder or a
\* file, one request at a time.
NextTree ==
  \/ /\ NoneKept
     /\ \E r \in AReq : ReadStep(r) \/ GrantBegin(r)
  \/ \E r \in AReq : FileDownloadCount(r) \/ GrantStep(r)
  \/ Forget

\* The files that are in no folder.
RootFiles == {i \in DOMAIN files : files[i].folder_id = NULL}

\* Grants on the folders of the tree and every request that names a file at the
\* root, one request at a time.
NextRootFile ==
  \/ /\ NoneKept
     /\ \/ \E r \in AReq :
             \/ GrantBegin(r)
             \/ \E u \in Users, route \in FileRoutes, f \in RootFiles \cup {NoSuchId} :
                  FileRead(r, u, route, f)
             \/ \E u \in Users, fo \in {NULL} \cup DOMAIN folders : FileList(r, u, fo)
        \/ \E r \in Req, u \in Users, f \in RootFiles \cup {NoSuchId} : DeleteStart(r, u, f)
        \/ \E r \in SReq, u \in Users, f \in RootFiles \cup {NoSuchId} : ShareStart(r, u, f, 1)
  \/ \E r \in AReq : FileDownloadCount(r) \/ GrantStep(r)
  \/ \E r \in Req : DeleteBlob(r) \/ DeleteRecord(r) \/ DeleteCommit(r)
  \/ \E r \in SReq : ShareUpdate(r) \/ ShareCache(r)
  \/ Forget

SpecRootFile == InitTree /\ [][NextRootFile]_vars

SpecTree == InitTree /\ [][NextTree]_vars

\* No request of the folders router is in flight.
RouterIdle == \A q \in AReq : areq[q].pc \in {"idle", "done"}

\* Folder deletes while folders are created and files are uploaded: the
\* requests of the folders router follow one another, and the uploads run
\* concurrently with them and with each other.
NextFolderDelete ==
  \/ \E r \in AReq :
       \/ /\ RouterIdle
          /\ nextFolderId <= MaxTreeFolders
          /\ \E u \in Users, name \in Names, parent \in {NULL} \cup DOMAIN folders :
               FolderCreateStart(r, u, name, parent)
       \/ FolderCreatePerm(r) \/ FolderCreateExisting(r) \/ FolderCreateInsert(r)
       \/ RouterIdle /\ \E u \in Users, fo \in AnyFolder : FolderDeleteStart(r, u, fo)
       \/ FolderDeleteSubCount(r) \/ FolderDeleteFileCount(r)
       \/ FolderDeletePerms(r) \/ FolderDeleteFolder(r)
  \/ \E r \in Req :
       \/ \E u \in Users, fo \in DOMAIN folders : UploadStart(r, u, fo, 1)
       \/ UploadStep(r)

SpecFolderDelete == InitAccess /\ [][NextFolderDelete]_vars

\* Folder deletes, one request at a time, among folder creations, grants and
\* uploads.
NextFolderDeleteAlone ==
  \/ /\ NoneKept
     /\ \/ \E r \in AReq :
             \/ /\ nextFolderId <= MaxTreeFolders
                /\ \E u \in Users, name \in Names, parent \in {NULL} \cup DOMAIN folders :
                     FolderCreateStart(r, u, name, parent)
             \/ \E u \in Users, fo \in AnyFolder : FolderDeleteStart(r, u, fo)
             \/ GrantBegin(r)
        \/ /\ nextFileId <= MaxTreeFiles
           /\ \E r \in Req, u \in Users, fo \in DOMAIN folders : UploadStart(r, u, fo, 1)
  \/ \E r \in AReq :
       \/ FolderCreatePerm(r) \/ FolderCreateExisting(r) \/ FolderCreateInsert(r)
       \/ FolderDeleteSubCount(r) \/ FolderDeleteFileCount(r)
       \/ FolderDeletePerms(r) \/ FolderDeleteFolder(r)
       \/ GrantStep(r)
  \/ \E r \in Req : UploadStep(r)
  \/ Forget

SpecFolderDeleteAlone == InitAccess /\ [][NextFolderDeleteAlone]_vars

\* Concurrent POST /share/folder/:folderId requests.
NextGrantRace ==
  \E r \in AReq :
    \/ \E u \in Users, fo \in AnyFolder, target \in Users, ptype \in PermissionTypes :
         GrantStart(r, u, fo, target, ptype)
    \/ GrantUser(r) \/ GrantExisting(r) \/ GrantUpdate(r) \/ GrantInsert(r)

SpecGrantRace == InitAccess /\ [][NextGrantRace]_vars

\* The stored file is shared under token 1 and has one of the MIME types; a
\* thumbnail was made for it unless it is plain text.
DeliveredFile(mime) ==
  [SharedImage EXCEPT !.mime_type = mime, !.has_thumbnail = (mime # "text/plain")]

InitDelivery ==
  /\ InitStorage(ShareGrants)
  /\ \E mime \in MimeTypes : files = [i \in {1} |-> DeliveredFile(mime)]
  /\ cache = [t \in Tokens |-> NoEntry]
  /\ nextToken = 2
  /\ coupon = [current_uses |-> 0, max_uses |-> MaxUses]

\* Deliveries of the stored file on the six routes, with an object store that
\* answers, streams, fails or stays silent and a client that may disconnect.
NextDelivery ==
  \E d \in DReq :
    \/ \E route \in DeliveryRoutes, f \in DOMAIN files : DeliveryStart(d, route, f)
    \/ \E st \in UpstreamStatuses : UpstreamResponse(d, st)
    \/ UpstreamData(d) \/ UpstreamEnd(d) \/ UpstreamError(d)
    \/ UpstreamTimeout(d)
    \/ ClientClose(d)
    \/ IdleTimeout(d)

SpecDelivery == InitDelivery /\ [][NextDelivery]_vars

\* The timers the code arms fire when nothing else ends the wait; neither the
\* object store nor the client is bound to act.
FairDelivery ==
  /\ SpecDelivery
  /\ \A d \in DReq : WF_vars(UpstreamTimeout(d)) /\ WF_vars(IdleTimeout(d))

\* Downloads and inline views of the stored file, by a signed-in user and
\* through its public token.
NextDeliveryCount ==
  \/ \E r \in AReq :
       \/ \E u \in Users, route \in {"file_download", "file_view"}, f \in AnyFile :
            FileRead(r, u, route, f)
       \/ FileDownloadCount(r)
  \/ \E r \in SReq :
       \/ \E route \in {"download", "view"}, t \in Tokens : PublicGet(r, route, t)
       \/ PublicDb(r) \/ PublicRecache(r) \/ PublicCount(r) \/ PublicName(r)

SpecDeliveryCount == InitDelivery /\ [][NextDeliveryCount]_vars

\* Shares and revocations of the stored file and of the files uploaded next to
\* it.
NextShareRevoke ==
  \/ \E r \in SReq :
       \/ \E u \in Users, f \in AnyFile : ShareStart(r, u, f, 1)
       \/ ShareUpdate(r) \/ ShareCache(r)
       \/ RevokeStep(r)
  \/ nextFileId <= MaxTreeFiles /\ \E u \in Users : UploadStart(1, u, NULL, 1)
  \/ UploadStep(1)

SpecShareRevoke == InitShare /\ [][NextShareRevoke]_vars

\* Uploads measured in bytes: both users have a quota of QuotaBytes, user 1 has
\* stored one file of UsedBytes in folder 1.
QuotaBytes == 1000000
UsedBytes == 900000

ByteSizes == {50000, 75000, 150000}

ByteBatches == UNION {[1..n -> ByteSizes] : n \in 1..MaxBatch}

InitBytes ==
  /\ users = [u \in Users |-> [storage_quota |-> QuotaBytes,
                                storage_used |-> IF u = 1 THEN UsedBytes ELSE 0]]
  /\ files = [i \in {1} |-> NewFile(1, 1, OldBlob(1), UsedBytes)]
  /\ nextFileId = 2
  /\ folders = [i \in {1} |-> [user_id |-> 1, parent_folder_id |-> NULL, name |-> "a"]]
  /\ nextFolderId = 2
  /\ permissions = {}
  /\ blobs = {OldBlob(1)}
  /\ req = [r \in Req |-> Blank]
  /\ areq = [r \in AReq |-> ABlank]
  /\ dreq = [d \in DReq |-> DBlank]
  /\ mreq = [m \in MReq |-> MBlank]
  /\ dispatched = NoDispatch
  /\ sreq = [r \in SReq |-> SBlank]
  /\ creq = [r \in CReq |-> CBlank]
  /\ cache = [t \in Tokens |-> NoEntry]
  /\ nextToken = 1
  /\ isConnected = TRUE
  /\ now = 0
  /\ conns = [c \in Conns |-> NewConn]
  /\ idle = <<>>
  /\ redemptions = {}
  /\ coupon = [current_uses |-> 0, max_uses |-> MaxUses]

\* Single and multi-file uploads of user 1.
NextRejection ==
  \E r \in Req :
    \/ \E s \in ByteSizes : UploadStart(r, 1, NULL, s)
    \/ UploadStep(r)
    \/ \E b \in ByteBatches : MultiStart(r, 1, NULL, b)
    \/ MultiQuota(r) \/ MultiPut(r) \/ MultiInsert(r) \/ MultiCommit(r)

SpecRejection == InitBytes /\ [][NextRejection]_vars

\* Deletes of files, with uploads at the root next to them.
NextFileDelete ==
  \E r \in Req :
    \/ FileDeleteStep(r)
    \/ nextFileId <= MaxTreeFiles /\ \E u \in Users : UploadStart(r, u, NULL, 1)
    \/ UploadStep(r)

SpecFileDelete == InitAccess /\ [][NextFileDelete]_vars


\* Forgot-password requests with a mail transport that accepts or fails with
\* any of the error codes.
NextMail ==
  \E m \in MReq :
    \/ \E u \in Users \cup {NoSuchId} : ForgotStart(m, u)
    \/ SendMailOk(m)
    \/ \E code \in ErrorCodes : SendMailFail(m, code)
    \/ RetryTimer(m)
    \/ MailForget(m)

SpecMail == Init /\ [][NextMail]_vars

\* sendMail settles (the transport has connection, greeting and socket
\* timeouts) and the retry timer fires.
FairMail ==
  /\ SpecMail
  /\ \A m \in MReq :
       /\ WF_vars(SendMailOk(m) \/ \E code \in ErrorCodes : SendMailFail(m, code))
       /\ WF_vars(RetryTimer(m))

\* Deletes of the stored file, single and bulk, by two requests at a time.
NextDeleteRace ==
  \E r \in Req :
    \/ \E u \in Users, f \in DOMAIN files : DeleteStart(r, u, f)
    \/ DeleteBlob(r) \/ DeleteRecord(r) \/ DeleteCommit(r)
    \/ \E u \in Users, f \in DOMAIN files : BulkStart(r, u, {f})
    \/ BulkBlob(r) \/ BulkRecord(r) \/ BulkCommit(r)

SpecDeleteRace == InitAccess /\ [][NextDeleteRace]_vars

\* One reconcile of user 1 next to one upload or one delete by the same user.
NextReconcileRace ==
  \/ StatsStart(1, 1) \/ StatsSum(1) \/ StatsSync(1)
  \/ \E s \in Sizes : UploadStart(2, 1, NULL, s)
  \/ UploadStep(2)
  \/ \E f \in DOMAIN files : DeleteStart(2, 1, f)
  \/ DeleteBlob(2) \/ DeleteRecord(2) \/ DeleteCommit(2)

SpecReconcileRace == InitAccess /\ [][NextReconcileRace]_vars

\* One batch upload, by either user, to the root or into the folder, with an
\* object store that may refuse any of the files and a database that may
\* reject the UPDATE of the counter.
NextBatch ==
  \E r \in Req :
    \/ /\ NoneKept
       /\ \E u \in Users, fo \in {NULL} \cup DOMAIN folders, b \in Batches :
            MultiStart(r, u, fo, b)
    \/ MultiQuota(r) \/ MultiPut(r) \/ MultiInsert(r) \/ MultiCommit(r)
    \/ MultiCommitRejected(r)

SpecBatch == InitAccess /\ [][NextBatch]_vars

\* Requests of every method and path at the two routers.
NextDispatch ==
  \E router \in {"files", "folders"}, method \in Methods, path \in Paths :
    Dispatch(router, method, path)

SpecDispatch == Init /\ [][NextDispatch]_vars

Mutating == {"upload", "multi", "delete", "bulk", "mixed"}

NoMutationInFlight == \A r \in Req : InFlight(r) => req[r].kind \notin Mutating

NoReconcile == \A r \in Req : req[r].kind # "stats"

\* C1: whenever no upload or delete request is in flight, every user's
\* storage_used equals the sum of the sizes of the file rows the user owns,
\* in the runs in which no reconcile has taken part.
C1_UsedEqualsSumWhenQuiet ==
  (NoMutationInFlight /\ NoReconcile)
    => \A u \in Users : users[u].storage_used = ActualUsed(u)

OnlyUploads == \A r \in Req : req[r].kind \in {"idle", "upload", "multi"}

\* C2: under any interleaving of uploads (no other request has been made),
\* storage_used never exceeds storage_quota, for every user.
C2_UsedWithinQuota ==
  OnlyUploads => \A u \in Users : users[u].storage_used <= users[u].storage_quota

\* C3: a batch evaluated with persisted used u, quota q and total size s is
\* admitted iff u + s <= q; a rejected batch stores no blob and records no file.
Evaluated(r) ==
  /\ req[r].kind = "multi"
  /\ req[r].pc \in {"mul_put", "mul_insert", "mul_commit"}
     \/ (req[r].pc = "done" /\ req[r].status \in {201, 413})

Admitted(r) == Evaluated(r) /\ req[r].status # 413

StoredBy(r) ==
  {n \in blobs : n[1] = r} \cup {files[i].name : i \in {j \in DOMAIN files : files[j].name[1] = r}}

C3_BatchAdmission ==
  \A r \in Req :
    Evaluated(r) =>
      /\ Admitted(r) <=> req[r].rd_used + SumSeq(req[r].sizes) <= req[r].rd_quota
      /\ ~Admitted(r) => StoredBy(r) = {} /\ req[r].successful = {}

\* A batch was rejected although one of its files alone would have fitted.
C3_RejectedThoughOneFits ==
  \E r \in Req :
    /\ Evaluated(r) /\ req[r].status = 413
    /\ \E i \in 1..Len(req[r].sizes) : req[r].rd_used + req[r].sizes[i] <= req[r].rd_quota

\* C4: when a reconcile that runs after the uploads and deletes is answered,
\* the user's storage_used equals the exact sum of the sizes of the file rows
\* the user owns at that moment.
C4_ReconcileExact ==
  [][\A r \in Req :
       (req[r].pc = "st_sync" /\ req'[r].pc = "done")
         => users'[req[r].user].storage_used
              = SumSizes(files', {i \in DOMAIN files' : files'[i].user_id = req[r].user})]_vars

\* A reconcile found storage_used off the sum and repaired it.
C4_DriftRepaired ==
  \E r \in Req :
    /\ req[r].kind = "stats" /\ req[r].pc = "done"
    /\ req[r].rd_used # req[r].actualUsed
    /\ users[req[r].user].storage_used = req[r].actualUsed

\* C5 as claimed: +size only after the blob put succeeded, -size only after the
\* blob delete succeeded.
UploadCommits(r) == req[r].pc \in {"upl_commit", "mul_commit"} /\ req'[r] # req[r]
DeleteCommits(r) == req[r].pc \in {"del_commit", "blk_commit"} /\ req'[r] # req[r]
StatsSyncs(r) == req[r].pc = "st_sync" /\ req'[r] # req[r]

C5_CommitOnlyAfterBlobSuccess ==
  [][\A r \in Req :
       /\ UploadCommits(r) => req[r].put = "ok"
       /\ DeleteCommits(r) => req[r].del = "ok"]_vars

\* C5 as the code has it: storage_used changes only in a commit step (or a
\* reconcile); +size is applied only for a file whose blob put succeeded, so a
\* failed put leaves storage_used alone; -size is applied once the blob delete
\* has been attempted, whether it succeeded or threw.
C5_CommitAfterBlobAttempt ==
  [][/\ users' # users =>
          \E r \in Req : UploadCommits(r) \/ DeleteCommits(r) \/ StatsSyncs(r)
     /\ \A r \in Req :
          /\ UploadCommits(r) =>
               /\ req[r].put = "ok"
               /\ users' = [users EXCEPT ![req[r].user].storage_used =
                                            @ + req[r].sizes[req[r].idx]]
          /\ DeleteCommits(r) =>
               /\ req[r].del \in {"ok", "failed"}
               /\ users' = [users EXCEPT ![req[r].snap[req[r].idx].user_id].storage_used =
                                            @ - req[r].snap[req[r].idx].size]
          /\ (req[r].pc \in {"upl_put", "mul_put"} /\ req'[r] # req[r]
                /\ req'[r].put = "failed")
               => users' = users /\ req'[r].pc \notin {"upl_insert", "mul_insert",
                                                        "upl_commit", "mul_commit"}]_vars

\* An upload whose put threw ended without a commit, and a delete whose blob
\* delete threw was answered 200 after decrementing.
C5_FailedPutAndFailedBlobDelete ==
  \E r \in Req, q \in Req :
    /\ req[r].kind = "upload" /\ req[r].put = "failed" /\ req[r].pc = "done"
    /\ req[q].kind = "delete" /\ req[q].del = "failed" /\ req[q].status = 200

Public(p) == sreq[p].kind \in Routes /\ sreq[p].pc = "done"

\* C6: a public request that arrives after a revocation of its token has been
\* acknowledged is answered 404 Not Found, on every route, also when a public
\* request for the token was in flight during the revocation.
C6_RevokedTokenNotFound ==
  \A p \in SReq : (Public(p) /\ "revoke" \in sreq[p].after) => sreq[p].status = 404

\* C7: a public request that arrives after a new share of the file has been
\* acknowledged is answered 404 Not Found for the token that share replaced.
C7_ReplacedTokenNotFound ==
  \A p \in SReq : (Public(p) /\ "reshare" \in sreq[p].after) => sreq[p].status = 404

\* C8: a public request that arrives after the delete of the file has been
\* acknowledged is not answered 200 for the file's former token, on any route.
C8_DeletedFileNotResolved ==
  \A p \in SReq : (Public(p) /\ "delete" \in sreq[p].after) => sreq[p].status # 200

\* C9: a public request that arrives h hours or more after its token was
\* created with an expiry of h hours is answered 404 Not Found, on every route.
C9_ExpiredTokenNotFound ==
  \A p \in SReq : (Public(p) /\ "expiry" \in sreq[p].after) => sreq[p].status = 404


Redeemed(r) == creq[r].pc = "done" /\ creq[r].code # NULL

\* C10: when two redemption requests of one user for the coupon have both been
\* answered, the user's storage_quota has grown by the bonus exactly once and
\* at most one of the two was answered 200.
C10_RedeemedExactlyOnce ==
  \A r, q \in CReq :
    (r # q /\ Redeemed(r) /\ Redeemed(q) /\ creq[r].user = creq[q].user)
      => /\ users[creq[r].user].storage_quota = InitQuota + StorageBonus
         /\ ~(creq[r].status = 200 /\ creq[q].status = 200)

\* C11: while the redemption requests come from different users, current_uses
\* never exceeds max_uses and no more than max_uses requests are answered 200.
C11_UsesWithinCap ==
  (\A r, q \in CReq : (r # q /\ creq[r].pc # "idle" /\ creq[q].pc # "idle")
                         => creq[r].user # creq[q].user)
    => /\ coupon.current_uses <= coupon.max_uses
       /\ Cardinality({r \in CReq : Redeemed(r) /\ creq[r].status = 200}) <= coupon.max_uses

\* C12: a redemption that arrives after the same user's redemption was answered
\* 200 is answered 400 'already redeemed'.
C12_SecondAttemptAlreadyRedeemed ==
  \A r \in CReq :
    (Redeemed(r) /\ creq[r].prior) => (creq[r].status = 400 /\ creq[r].error = "already")

FolderGot(r) == areq[r].kind = "folder_get" /\ areq[r].pc = "done"

GrantRows(fo, u) ==
  {p \in permissions : p.folder_id = fo /\ p.shared_with_user_id = u}

\* C13: for every folder and caller, GET /:folderId resolves 'owner' iff the
\* caller owns the folder; for any other caller it resolves exactly the
\* permission_type of the stored grant of (folder, caller), and answers 404
\* when there is no such grant.
C13_FolderAccessResolved ==
  [][\A r \in AReq :
       (areq'[r] # areq[r] /\ FolderGot(r)')
         => LET u == areq'[r].user
                fo == areq'[r].target
                owned == fo \in DOMAIN folders /\ folders[fo].user_id = u
            IN /\ (areq'[r].status = 200 /\ areq'[r].access = "owner") <=> owned
               /\ ~owned =>
                    IF GrantRows(fo, u) # {}
                    THEN /\ areq'[r].status = 200
                         /\ \A p \in GrantRows(fo, u) :
                              areq'[r].access = p.permission_type
                    ELSE areq'[r].status = 404]_vars

\* A grantee read a folder that was created and shared during the run, and was
\* told the granted level.
C13_GranteeReadsNewFolder ==
  \E r \in AReq :
    /\ FolderGot(r) /\ areq[r].target # 1 /\ areq[r].status = 200
    /\ areq[r].access \in PermissionTypes

\* The level GET /:fileId resolved: the access_level of its row, "none" for 404.
FileGot(r) == areq[r].kind = "file_get" /\ areq[r].pc = "done"

ResolvedLevel(r) == IF areq[r].status = 404 THEN "none" ELSE areq[r].access

\* C14: for every file in a folder and every caller, the permission GET /:fileId
\* resolves for the caller on the file equals the permission resolved for the
\* caller on the folder, also for a file a grantee has uploaded into the folder.
C14_FilePermissionIsFolderPermission ==
  \A r \in AReq :
    (FileGot(r) /\ areq[r].target \in DOMAIN files
       /\ files[areq[r].target].folder_id # NULL)
      => ResolvedLevel(r) = FolderAccess(areq[r].user, files[areq[r].target].folder_id)

\* The stored grant of (folder, caller) is one of the levels in S.
HoldsGrant(u, fo, S) ==
  \E p \in permissions :
    p.folder_id = fo /\ p.shared_with_user_id = u /\ p.permission_type \in S

\* The step in which a slot takes a request of the kind.
Begins(slot, slot2, kind) ==
  slot.pc \in {"idle", "done"} /\ slot2 # slot /\ slot2.kind = kind

\* C15: an upload into a folder and the creation of a sub-folder are authorized
\* for a caller who does not own the folder iff the caller's grant on it is
\* create or edit; deleting a file, renaming a folder and creating a public
\* share are authorized iff the caller owns the entity or holds edit on the
\* folder (for a file: the folder it is in); view authorizes none of them.
C15_RequiredLevels ==
  [][/\ \A r \in Req :
          /\ (Begins(req[r], req'[r], "upload")
                /\ req'[r].folder \in DOMAIN folders
                /\ folders[req'[r].folder].user_id # req'[r].user)
               => /\ req'[r].pc = "upl_quota"
                      <=> HoldsGrant(req'[r].user, req'[r].folder, {"create", "edit"})
                  /\ req'[r].pc # "upl_quota" => req'[r].pc = "done" /\ req'[r].status = 403
          /\ (Begins(req[r], req'[r], "delete") /\ req'[r].target \in DOMAIN files)
               => req'[r].pc = "del_blob"
                    <=> \/ files[req'[r].target].user_id = req'[r].user
                        \/ HoldsGrant(req'[r].user, files[req'[r].target].folder_id, {"edit"})
     /\ \A r \in AReq :
          /\ (areq[r].pc = "fc_perm" /\ areq'[r] # areq[r])
               => /\ areq'[r].pc = "fc_existing"
                      <=> HoldsGrant(areq[r].user, areq[r].parent, {"create", "edit"})
                  /\ areq'[r].pc # "fc_existing" => areq'[r].pc = "done" /\ areq'[r].status = 403
          /\ (Begins(areq[r], areq'[r], "folder_create")
                /\ areq'[r].parent \in DOMAIN folders /\ areq'[r].name # "")
               => (areq'[r].pc = "fc_perm"
                     <=> folders[areq'[r].parent].user_id # areq'[r].user)
          /\ (Begins(areq[r], areq'[r], "folder_rename")
                /\ areq'[r].target \in DOMAIN folders /\ areq'[r].name # "")
               => areq'[r].pc = "fr_update"
                    <=> \/ folders[areq'[r].target].user_id = areq'[r].user
                        \/ HoldsGrant(areq'[r].user, areq'[r].target, {"edit"})
     /\ \A r \in SReq :
          (Begins(sreq[r], sreq'[r], "share") /\ sreq'[r].file \in DOMAIN files)
            => sreq'[r].pc = "sh_update"
                 <=> \/ files[sreq'[r].file].user_id = sreq'[r].user
                     \/ HoldsGrant(sreq'[r].user, files[sreq'[r].file].folder_id, {"edit"})]_vars

\* A grantee holding edit has deleted a file of another user, in a run in which
\* the folder is shared at edit.
C15_EditGranteeDeleted ==
  \E r \in Req :
    /\ req[r].kind = "delete" /\ req[r].pc = "done" /\ req[r].status = 200
    /\ req[r].snap[1].user_id # req[r].user

FileReadDone(r) == areq[r].kind \in FileRoutes /\ areq[r].pc = "done"

\* The caller owns the folder or has a grant row on this very folder.
OwnClaim(u, fo) ==
  fo \in DOMAIN folders /\ (folders[fo].user_id = u \/ GrantRows(fo, u) # {})

\* C16: access to a child folder and to the files in it is determined by the
\* child's own owner and own grants only (for a file: its uploader and the
\* grants of the folder it is in), whatever grants the ancestors carry: a
\* grantee of the parent is answered 404 on both.
C16_NoInheritedAccess ==
  \A r \in AReq :
    /\ (FolderGot(r) /\ areq[r].target \in DOMAIN folders
          /\ folders[areq[r].target].parent_folder_id # NULL)
         => (areq[r].status = 200 <=> OwnClaim(areq[r].user, areq[r].target))
    /\ (areq[r].kind = "folder_list" /\ areq[r].pc = "done" /\ areq[r].parent # NULL)
         => areq[r].rows = {f \in SubfoldersOf(areq[r].parent) : OwnClaim(areq[r].user, f)}
    /\ (FileReadDone(r) /\ areq[r].target \in DOMAIN files
          /\ files[areq[r].target].folder_id \in DOMAIN folders
          /\ folders[files[areq[r].target].folder_id].parent_folder_id # NULL)
         => LET f == areq[r].target
                allowed == \/ files[f].user_id = areq[r].user
                           \/ GrantRows(files[f].folder_id, areq[r].user) # {}
            IN /\ areq[r].status # 404 => allowed
               /\ (allowed /\ (areq[r].kind = "file_thumbnail" => files[f].has_thumbnail))
                    => areq[r].status # 404
    /\ (areq[r].kind = "file_list" /\ areq[r].pc = "done"
          /\ areq[r].parent \in DOMAIN folders
          /\ folders[areq[r].parent].parent_folder_id # NULL)
         => areq[r].rows = {f \in FilesIn(areq[r].parent) :
                              \/ files[f].user_id = areq[r].user
                              \/ GrantRows(areq[r].parent, areq[r].user) # {}}

\* A caller holding edit on the parent asked for a file in the child folder and
\* was answered 404.
C16_ParentGranteeDenied ==
  \E r \in AReq :
    /\ FileReadDone(r) /\ areq[r].status = 404
    /\ areq[r].target \in DOMAIN files
    /\ LET c == files[areq[r].target].folder_id
       IN /\ c \in DOMAIN folders
          /\ folders[c].parent_folder_id \in DOMAIN folders
          /\ HoldsGrant(areq[r].user, folders[c].parent_folder_id, {"edit"})

\* C17: a file that is in no folder is accessible to its owner only: whatever
\* grants exist, any other caller is answered 404 by get, download, view,
\* thumbnail, delete and share, and does not find the file in a listing.
C17_RootFileOwnerOnly ==
  /\ \A r \in AReq :
       /\ (FileReadDone(r) /\ areq[r].target \in RootFiles
             /\ files[areq[r].target].user_id # areq[r].user)
            => areq[r].status = 404
       /\ (areq[r].kind = "file_list" /\ areq[r].pc = "done")
            => \A f \in areq[r].rows \cap RootFiles : files[f].user_id = areq[r].user
  /\ \A r \in Req :
       (req[r].kind = "delete" /\ req[r].pc = "done" /\ req[r].target \in RootFiles
          /\ files[req[r].target].user_id # req[r].user)
         => req[r].status = 404
  /\ \A r \in SReq :
       (sreq[r].kind = "share" /\ sreq[r].pc = "done" /\ sreq[r].file \in RootFiles
          /\ files[sreq[r].file].user_id # sreq[r].user)
         => sreq[r].status = 404

\* A caller holding edit on every folder asked to delete a root file of another
\* user and was answered 404.
C17_GranteeDeniedRootFile ==
  \E r \in Req :
    /\ req[r].kind = "delete" /\ req[r].pc = "done" /\ req[r].status = 404
    /\ req[r].target \in RootFiles
    /\ \A fo \in DOMAIN folders : HoldsGrant(req[r].user, fo, {"edit"})

\* C18: an upload into a folder by a caller who does not own it and holds only
\* view is answered 403 and changes no file row, no blob and no storage_used;
\* when a caller holding create uploads, the file count GET /:folderId
\* reports for the folder goes up by exactly one with the new row, whatever
\* else the folder contains.
C18_UploadByGrantee ==
  [][\A r \in Req :
       /\ (Begins(req[r], req'[r], "upload")
             /\ req'[r].folder \in DOMAIN folders
             /\ folders[req'[r].folder].user_id # req'[r].user
             /\ HoldsGrant(req'[r].user, req'[r].folder, {"view"}))
            => /\ req'[r].pc = "done" /\ req'[r].status = 403
               /\ UNCHANGED <<files, blobs, users>>
       /\ (req[r].pc = "upl_insert" /\ req'[r] # req[r]
             /\ req[r].folder \in DOMAIN folders
             /\ HoldsGrant(req[r].user, req[r].folder, {"create"}))
            => ReportedFileCount(req[r].folder)' = ReportedFileCount(req[r].folder) + 1]_vars

\* The caller neither owns the folder nor has a grant row on it.
StrangerToFolder(u, fo) ==
  fo \in DOMAIN folders /\ folders[fo].user_id # u /\ GrantRows(fo, u) = {}

StrangerToFile(u, f) ==
  f \in DOMAIN files /\ files[f].user_id # u /\ GrantRows(files[f].folder_id, u) = {}

\* What each handler answers when the id it is given has no row.
MissingStatus == 404

\* C19: a caller who is neither owner nor grantee of an existing folder or file
\* is answered, by every operation on it, what the operation answers for an id
\* that does not exist.
C19_NoExistenceLeak ==
  /\ \A r \in Req :
       /\ (req[r].kind = "upload" /\ req[r].pc = "done"
             /\ StrangerToFolder(req[r].user, req[r].folder))
            => req[r].status = UploadFolderCheck(req[r].user, NoSuchId)
       /\ (req[r].kind = "delete" /\ req[r].pc = "done"
             /\ StrangerToFile(req[r].user, req[r].target))
            => req[r].status = MissingStatus
  /\ \A r \in AReq :
       /\ (areq[r].kind = "folder_create" /\ areq[r].pc = "done" /\ areq[r].name # ""
             /\ StrangerToFolder(areq[r].user, areq[r].parent))
            => areq[r].status = MissingStatus
       /\ (areq[r].kind = "folder_rename" /\ areq[r].pc = "done" /\ areq[r].name # ""
             /\ StrangerToFolder(areq[r].user, areq[r].target))
            => areq[r].status = MissingStatus
  /\ \A r \in SReq :
       (sreq[r].kind = "share" /\ sreq[r].pc = "done"
          /\ StrangerToFile(sreq[r].user, sreq[r].file))
         => sreq[r].status = MissingStatus

\* C20: when requests are served one at a time, DELETE /:folderId removes the
\* folder only when the caller owns it and it has no sub-folder and no file; a
\* caller who does not own it is rejected whatever grant they hold, a non-empty
\* folder is rejected with 400, and a rejected delete changes no folder, no
\* file and no grant.
C20_FolderDeleteOnlyWhenEmpty ==
  [][\A r \in AReq :
       /\ (areq[r].pc = "fd_folder" /\ areq'[r].pc = "done" /\ areq'[r].status = 200)
            => /\ areq[r].target \in DOMAIN folders
               /\ folders[areq[r].target].user_id = areq[r].user
               /\ SubfoldersOf(areq[r].target) = {}
               /\ FilesIn(areq[r].target) = {}
       /\ (Begins(areq[r], areq'[r], "folder_delete")
             /\ areq'[r].target \in DOMAIN folders
             /\ folders[areq'[r].target].user_id # areq'[r].user)
            => areq'[r].pc = "done" /\ areq'[r].status \in {403, 404}
       /\ (areq[r].pc = "fd_filecount" /\ areq'[r] # areq[r])
            => ((areq'[r].pc = "done" /\ areq'[r].status = 400)
                  <=> (SubfoldersOf(areq[r].target) # {} \/ FilesIn(areq[r].target) # {}))
       /\ (areq'[r].kind = "folder_delete" /\ areq'[r] # areq[r]
             /\ areq'[r].pc = "done" /\ areq'[r].status # 200)
            => UNCHANGED <<folders, files, permissions>>]_vars

\* The owner has deleted an empty folder that was created during the run.
C20_EmptyFolderDeleted ==
  \E r \in AReq :
    /\ areq[r].kind = "folder_delete" /\ areq[r].pc = "done" /\ areq[r].status = 200
    /\ areq[r].target \notin DOMAIN folders
    /\ areq[r].user = 1
    /\ nextFolderId > 2

\* C21: under any interleaving of a folder delete with uploads and sub-folder
\* creations, the step that deletes the folder removes no file row and no
\* other folder: the folder it deletes holds no file and no sub-folder.
C21_DeleteNeverCascades ==
  [][\A r \in AReq :
       (areq[r].pc = "fd_folder" /\ areq'[r] # areq[r])
         => /\ DOMAIN files' = DOMAIN files
            /\ DOMAIN folders \ DOMAIN folders' \subseteq {areq[r].target}
            /\ FilesIn(areq[r].target) = {}
            /\ SubfoldersOf(areq[r].target) = {}]_vars

\* C22: under any interleaving of concurrent share requests of the folder's
\* owner for one (folder, grantee) pair, there is at most one grant row for the
\* pair and no request fails: each is answered 201 (created) or 200 (updated).
C22_GrantAtomic ==
  /\ \A fo \in AllFolderIds, u \in Users : Cardinality(GrantRows(fo, u)) <= 1
  /\ \A r \in AReq :
       (areq[r].kind = "grant" /\ areq[r].pc = "done"
          /\ areq[r].target \in DOMAIN folders
          /\ folders[areq[r].target].user_id = areq[r].user
          /\ areq[r].parent # areq[r].user)
         => areq[r].status \in {200, 201}

\* The object store's side of a delivery is still open or waiting.
UpstreamLive(d) == dreq[d].upstream \in {"pending", "open", "paused"}

\* The client is still connected to a response that has not ended.
DownstreamOpen(d) == dreq[d].client = "open" /\ ~dreq[d].ended

\* Both sides of the delivery are finished.
Terminal(d) == dreq[d].route # "" /\ ~UpstreamLive(d) /\ ~DownstreamOpen(d)

\* C23: on every delivery route, once the client of an accepted delivery has
\* disconnected, whether the upstream request is still waiting for its answer
\* or is streaming, the upstream transfer is eventually torn down.
C23_DisconnectTearsDownUpstream ==
  \A d \in DReq : (dreq[d].client = "closed") ~> ~UpstreamLive(d)

\* C24: when the upstream fetch fails or times out, a delivery whose headers
\* had not been sent has answered with exactly one error status, a delivery
\* whose headers had been sent gets no further status and its downstream
\* response is eventually terminated, and no delivery writes two responses.
C24_UpstreamFailureAnswered ==
  /\ [](\A d \in DReq :
          /\ dreq[d].responses <= 1
          /\ dreq[d].upstream \in {"failed", "timedout"}
               => \/ dreq[d].body = "error" /\ dreq[d].status \in {500, 504}
                  \/ dreq[d].body \in {"file", "upstream_error"} /\ dreq[d].status = 200)
  /\ \A d \in DReq :
       (dreq[d].upstream \in {"failed", "timedout"}) ~> ~DownstreamOpen(d)

\* C25: every delivery that has been started eventually reaches a terminal
\* state, even when the object store never answers.
C25_DeliveryTerminates ==
  \A d \in DReq : (dreq[d].route # "") ~> Terminal(d)

\* C26: an upstream answer with a non-success status never ends as a success
\* response that carries the upstream error body.
C26_UpstreamErrorNotForwarded ==
  \A d \in DReq :
    dreq[d].upstreamStatus \notin {0, 200}
      => ~(dreq[d].status = 200 /\ dreq[d].body = "upstream_error")

\* The class of a Content-Disposition.
InlineEligible(mime) ==
  StartsWith(mime, "image/") \/ StartsWith(mime, "video/") \/ mime = "application/pdf"

\* A delivery of the file itself that has sent its headers.
Served(d, routes) ==
  dreq[d].route \in routes /\ dreq[d].headersSent /\ dreq[d].status = 200

\* C28: for every MIME type, a delivery of the file to an authenticated caller
\* and a delivery of the same file through a public token carry the same
\* Content-Disposition class, inline for image/*, video/* and application/pdf
\* and attachment for every other type.
C28_SameDispositionPolicy ==
  \A a \in DReq, p \in DReq :
    (/\ Served(a, {"download", "view"})
     /\ Served(p, {"public", "public_view"})
     /\ dreq[a].file = dreq[p].file)
      => /\ dreq[a].disposition = dreq[p].disposition
         /\ dreq[a].disposition =
              IF InlineEligible(dreq[a].mime) THEN "inline" ELSE "attachment"

\* The download_count of file f, 0 when it has no row.
DownloadCount(tbl, f) == IF f \in DOMAIN tbl THEN tbl[f].download_count ELSE 0

\* C27: the step at which a delivery request is accepted, on the authenticated
\* or the public route, as a download or as an inline view, is the one that
\* increments the download_count of the file, by exactly one, before any
\* content is streamed.
C27_CountedOncePerDelivery ==
  [][/\ \A r \in AReq :
          (/\ areq'[r] # areq[r]
           /\ areq'[r].kind \in {"file_download", "file_view"}
           /\ areq'[r].pc = "done" /\ areq'[r].status = 200)
            => DownloadCount(files', areq'[r].target)
                 = DownloadCount(files, areq'[r].target) + 1
     /\ \A r \in SReq :
          (/\ sreq'[r] # sreq[r]
           /\ sreq'[r].kind \in {"download", "view"}
           /\ sreq'[r].pc = "pub_name")
            => DownloadCount(files', sreq'[r].data.fileId)
                 = DownloadCount(files, sreq'[r].data.fileId) + 1]_vars

\* C29: in every reachable state a file that is not public has no share token.
C29_NoDanglingToken ==
  \A i \in DOMAIN files : ~files[i].is_public => files[i].public_share_token = NULL

\* A share of a file has been revoked and the file has not been shared again.
C29_ShareRevoked ==
  \E r \in SReq :
    /\ sreq[r].kind = "revoke" /\ sreq[r].pc = "done" /\ sreq[r].status = 200
    /\ sreq[r].oldToken # NULL
    /\ sreq[r].file \in DOMAIN files /\ ~files[sreq[r].file].is_public

\* The file rows the store holds for token t as a public share.
StoreRows(t) ==
  {i \in DOMAIN files : files[i].public_share_token = t /\ files[i].is_public}

\* Slot r takes a request on a public route in this step.
PublicArrives(r) == Available(r) /\ sreq'[r] # sreq[r] /\ sreq'[r].kind \in Routes

\* The cache holds no live entry for token t or cannot be reached.
CacheMisses(t) == ~isConnected \/ cache[t].expireAt <= now

\* C30: a public request that finds the cache unreachable or without an entry
\* goes to the store; the store's answer decides: 404 when no row holds the
\* token as a public share, the descriptor of that row otherwise; and no
\* request on the share routes is answered 500 for a cache operation.
C30_CacheFallsBackToStore ==
  [][\A r \in SReq :
       /\ (PublicArrives(r) /\ CacheMisses(sreq'[r].token)) => sreq'[r].pc = "pub_db"
       /\ (sreq[r].pc = "pub_db" /\ sreq'[r] # sreq[r])
            => IF StoreRows(sreq[r].token) = {}
               THEN sreq'[r].pc = "done" /\ sreq'[r].status = 404
               ELSE /\ sreq'[r].status # 404
                    /\ \E i \in StoreRows(sreq[r].token) :
                         /\ sreq'[r].data.fileId = i
                         /\ sreq'[r].data.mimeType = files[i].mime_type
       /\ sreq'[r].status # 500]_vars

\* A public request holds the descriptor it built from the store's row while
\* the cache cannot be reached.
C30_ResolvedWithoutCache ==
  \E r \in SReq :
    /\ sreq[r].pc = "pub_cache"
    /\ ~isConnected
    /\ sreq[r].data.fileId \in StoreRows(sreq[r].token)

\* The moment the share under token t ends: the deadline of the request that
\* created it; token 1 was created at time 0 for one hour.
ShareDeadline(t) ==
  IF \E q \in SReq : sreq[q].kind = "share" /\ sreq[q].pc = "done" /\ sreq[q].token = t
  THEN sreq[CHOOSE q \in SReq :
              sreq[q].kind = "share" /\ sreq[q].pc = "done" /\ sreq[q].token = t].deadline
  ELSE SecondsPerHour

\* C31: every write of a public-share cache entry, at share creation and at a
\* re-cache, uses a TTL that is at most the remaining lifetime of the share and
\* at most 24 hours.
C31_TtlWithinLifetime ==
  [][\A t \in Tokens :
       (cache'[t] # cache[t] /\ cache'[t] # NoEntry)
         => /\ cache'[t].expireAt - now <= 24 * SecondsPerHour
            /\ cache'[t].expireAt <= ShareDeadline(t)']_vars

\* The number of bytes a formatted amount stands for, in hundredths of a byte.
CentiBytes(amount) ==
  amount.hundredths * (IF amount.unit = "GB" THEN BytesPerGB ELSE BytesPerMB)

\* The amount a rejection reports as requested.
ReportedRequest(details) ==
  IF "fileSize" \in DOMAIN details THEN details.fileSize ELSE details.totalUploadSize

\* C32: an upload rejected for quota reports the requested total and the
\* remaining capacity in bytes: the two amounts of the answer stand for the
\* bytes requested and for quota minus used.
C32_RejectionReportsBytes ==
  \A r \in Req :
    (req[r].pc = "done" /\ req[r].status = 413)
      => /\ CentiBytes(ReportedRequest(req[r].details))
              = 100 * TotalUploadSize(req[r].sizes)
         /\ CentiBytes(req[r].details.availableSpace)
              = 100 * (req[r].rd_quota - req[r].rd_used)

\* C33: a file delete whose blob deletion failed still removes the file record
\* and is answered 200.
C33_BlobFailureDoesNotBlockDelete ==
  [][\A r \in Req :
       (req'[r].kind = "delete" /\ req'[r].del = "failed" /\ req'[r] # req[r])
         => /\ req[r].pc = "del_record" => req[r].target \notin DOMAIN files'
            /\ req'[r].pc = "done"
                 => req'[r].status = 200 /\ req'[r].target \notin DOMAIN files']_vars

\* A delete has been answered 200 after its blob deletion failed: the record
\* is gone and the blob is still in the object store.
C33_DeletedWithBlobLeft ==
  \E r \in Req :
    /\ req[r].kind = "delete" /\ req[r].pc = "done" /\ req[r].status = 200
    /\ req[r].del = "failed"
    /\ req[r].target \notin DOMAIN files
    /\ req[r].snap[1].name \in blobs

\* C34: the reset email is sent again only after an ETIMEDOUT, ENOTFOUND or
\* ECONNREFUSED error, each time after the same delay, in at most 1 + 3
\* attempts; any other error ends the call at the attempt it occurs in; and
\* every call ends with a sent result or an error.
C34_Attempts(m) ==
  /\ mreq[m].retryCount <= maxRetries
  /\ Len(mreq[m].errors) <= 1 + maxRetries
  /\ Len(mreq[m].delays) = mreq[m].retryCount
  /\ \A i \in 1..Len(mreq[m].delays) :
       mreq[m].delays[i] = retryDelay /\ mreq[m].errors[i] \in TransientCodes
  /\ \A i \in 1..Len(mreq[m].errors) :
       mreq[m].errors[i] \notin TransientCodes
         => i = Len(mreq[m].errors) /\ mreq[m].pc = "done" /\ mreq[m].result = "error"
  /\ (mreq[m].pc = "done" /\ mreq[m].user # 0) => mreq[m].result \in {"sent", "error"}

C34_BoundedTransientRetry ==
  /\ [](\A m \in MReq : C34_Attempts(m))
  /\ \A m \in MReq : (mreq[m].pc = "sending") ~> (mreq[m].pc = "done")

C34_SentAfterThreeRetries ==
  \E m \in MReq : /\ mreq[m].pc = "done" /\ mreq[m].result = "sent"
                  /\ mreq[m].retryCount = maxRetries

\* C35: of two delete requests for the same file, one decreases the owner's
\* storage_used by the file's size, and storage_used never falls below zero.
C35_DecreasedOnce ==
  /\ \A u \in Users : users[u].storage_used >= 0
  /\ \A r1, r2 \in Req :
       r1 # r2 => req[r1].deleted \cap req[r2].deleted = {}

\* C36: when a reconcile and an upload or a delete of the same user have both
\* been answered, the user's storage_used is the sum of the sizes of the
\* user's files.
C36_ReconcileRaceExact ==
  \A r1, r2 \in Req :
    ( /\ req[r1].kind = "stats" /\ req[r1].pc = "done"
      /\ req[r2].kind \in {"upload", "delete"} /\ req[r2].pc = "done"
      /\ req[r2].user = req[r1].user )
      => users[req[r1].user].storage_used = ActualUsed(req[r1].user)

\* The files of the batch of request r that have a row in the files table.
Recorded(r) ==
  {i \in 1..Len(req[r].sizes) : \E f \in DOMAIN files : files[f].name = BlobName(r, i)}

\* C37: when an admitted batch upload has been answered, each file of the batch
\* is in exactly one of results.successful and results.failed, the files with
\* a row are the successful ones, and storage_used has grown by the sizes of
\* the files with a row; the files after a failed one are processed too.
C37_BatchAccounted ==
  \A r \in Req :
    (req[r].kind = "multi" /\ req[r].pc = "done" /\ req[r].status = 201)
      => /\ req[r].successful \cup req[r].failed = 1..Len(req[r].sizes)
         /\ req[r].successful \cap req[r].failed = {}
         /\ Recorded(r) = req[r].successful
         /\ users[req[r].user].storage_used
              = req[r].rd_used + SumSizes([i \in Recorded(r) |-> [size |-> req[r].sizes[i]]],
                                          Recorded(r))

\* C38: a public thumbnail request for the token of a shared file that has a
\* thumbnail, arriving while the share stands, is answered with the thumbnail,
\* whichever route wrote the cached descriptor of the token.
C38_ThumbnailFromAnyDescriptor ==
  \A r \in SReq :
    ( /\ sreq[r].kind = "thumbnail" /\ sreq[r].pc = "done"
      /\ sreq[r].after = {}
      /\ \E f \in DOMAIN files :
           /\ files[f].public_share_token = sreq[r].token
           /\ files[f].is_public /\ files[f].has_thumbnail )
      => sreq[r].status = 200

\* C39: a DELETE of the path /bulk at the files router or at the folders
\* router is handed to the router's bulk-delete handler.
C39_BulkReachesBulkHandler ==
  (dispatched.method = "DELETE" /\ dispatched.path = <<"bulk">>)
    => dispatched.handler = IF dispatched.router = "files" THEN "files.bulkDelete"
                            ELSE "folders.bulkDelete"

TypeOK ==
  /\ users \in [Users -> [storage_quota : Int, storage_used : Int]]
  /\ DOMAIN files \subseteq FileIds
  /\ nextFileId \in 1..(MaxFiles + 1)
  /\ DOMAIN folders \subseteq AllFolderIds
  /\ DOMAIN req = Req
  /\ DOMAIN cache = Tokens
  /\ isConnected \in BOOLEAN
  /\ now \in 0..(MaxClockHours * SecondsPerHour)
  /\ nextToken \in 1..(MaxTokens + 1)
  /\ DOMAIN sreq = SReq
  /\ DOMAIN creq = CReq
  /\ DOMAIN areq = AReq
  /\ DOMAIN dreq = DReq
  /\ DOMAIN mreq = MReq
  /\ dispatched.handler \in STRING
  /\ nextFolderId \in 1..(MaxFolders + 1)
  /\ DOMAIN conns = Conns
  /\ \A k \in 1..Len(idle) : idle[k] \in Conns
  /\ redemptions \subseteq {RedemptionKey(u) : u \in Users}
  /\ coupon.current_uses \in Nat

====
